---- MODULE Spec2Model ----
(***************************************************************************)
(* Discovery server: group/member registry with lease expiry and the      *)
(* inter-server gossip protocol.                                          *)
(*                                                                         *)
(* The RPC handlers and the gossip driver (TClientDiscoveryService,       *)
(* TServerDiscoveryService, TDiscoveryServer::SendGossip) are translated  *)
(* from discovery_server.cpp.  TGroupManager, TGroup and TMember are      *)
(* declared in group_manager.h, group.h and member.h, which are not part  *)
(* of the sources at hand; they are modelled from the specification       *)
(* (sections 3, 4.1 - 4.3) and marked as such.                            *)
(***************************************************************************)
EXTENDS Integers, Sequences, FiniteSets, TLC

\* ------------------------------------------------------------------------
\* Configuration and bounds
\* ------------------------------------------------------------------------

\* Config_->ServerAddresses: the fixed peer list, SelfAddress included.
ServerAddresses == {"A", "B"}

GroupIds == {"g1", "g2"}

MemberIds == {"m1", "m2", "m3"}

\* Lexicographic rank of a member id ("m1" < "m2" < "m3").
IdRank == [m \in MemberIds |-> CASE m = "m1" -> 1 [] m = "m2" -> 2 [] m = "m3" -> 3]

\* This server in the single-server model; its peer is the environment.
Self == "A"

\* (groupId, memberId) pairs that clients heartbeat in the two-server model.
HbKeys == {<<"g1", "m1">>}

\* (groupId, memberId) pairs of the single-server model.
ServerKeys == {<<"g1", "m1">>, <<"g2", "m1">>}

Keys == GroupIds \X MemberIds

\* Attribute dictionaries: key -> opaque bytes.
AttrKeys == {"host", "rack"}

EmptyAttributes == [k \in {} |-> ""]

AttrX == [k \in {"host"} |-> "h1"]

AttrY == [k \in {"host"} |-> "h2"]

\* Member infos clients send: priority and attributes change together.
HbInfos == {[priority |-> 1, attributes |-> AttrX],
            [priority |-> 2, attributes |-> AttrY]}

\* Config_->AttributesUpdatePeriod.
AttributesUpdatePeriod == 2

\* config->GossipBatchSize.
GossipBatchSize == 2

\* Wall clock at start: far enough from the epoch (TInstant zero) that
\* Now() - 0 exceeds AttributesUpdatePeriod, as it does on any real clock.
StartTime == AttributesUpdatePeriod + 1

\* Number of clock steps explored.
TimeSpan == 3

MaxTime == StartTime + TimeSpan

\* Lease timeouts clients ask for.
MaxLease == 2

LeaseTimeouts == 1..MaxLease

\* Total number of heartbeats explored in the two-server model.
MaxHeartbeats == 2

\* Total number of heartbeats explored in the single-server model.
MaxHomeHeartbeats == 2

\* Gossip requests the environment's peer sends in the single-server model.
MaxPeerGossip == 1

\* Highest revision in a request of the environment's peer.
MaxPeerRevision == 2

\* Largest limit of a ListMembers request.
MaxLimit == 3

\* Gossip requests in flight at once.
MaxInFlight == 1

\* Object slots of one server's member heap: per key at most the live
\* member, one in the change set and one held by a running SendGossip.
ObjIds == 1..(3 * Cardinality(Keys))

NoTimer == -1

\* ------------------------------------------------------------------------
\* State
\* ------------------------------------------------------------------------

VARIABLES
    now,        \* TInstant::Now()
    gm,         \* gm[s]: the TGroupManager of server s
    tick,       \* tick[s]: the locals of a running SendGossip on server s
    net,        \* ProcessGossip requests in flight
    hbLeft,     \* heartbeats still to come
    peerLeft,   \* requests the environment's peer may still send
    dirty,      \* history: dirty[s] = keys mutated on s since its last drain
    topRevision,\* history: topRevision[s][k] = highest revision s stored for k
    request,    \* the last request of a client or peer (handler models), or
                \* history: what the heartbeats made of a member, by revision
    response,   \* the response to it (handler models)
    executor,   \* executor[s]: the TPeriodicExecutor that runs SendGossip on s
    slotManager \* the TSlotManager of an exec node, its slot guards and the
                \* callbacks on its job invoker

vars == <<now, gm, tick, net, hbLeft, peerLeft, dirty, topRevision,
          request, response, executor, slotManager>>

\* The state before the constructor of TSlotManager has run: the servers of
\* the discovery service have no slot manager.
NoSlotManager ==
    [SlotCount_ |-> 0, FreeSlots_ |-> {}, UsedIdleSlotCount_ |-> 0,
     IdlePolicyRequestedCpu_ |-> 0, initialized |-> FALSE, aborted |-> "no",
     guards |-> <<>>, invoked |-> <<>>, acquires |-> 0, result |-> "none"]

\* ------------------------------------------------------------------------
\* TMember (section 4.1)
\* ------------------------------------------------------------------------

\* A member created by Upsert: "creates empty".  Two history fields:
\* attrsSentAt holds the start times of the last two ticks that carried the
\* object's attributes, withheldAt the start time of the last tick that
\* drained the object and left its attributes out (0: none).
NewMember(g, m) ==
    [id |-> m, groupId |-> g, priority |-> 0, attributes |-> EmptyAttributes,
     revision |-> 0, leaseDeadline |-> 0, lastGossipAttributesUpdateTime |-> 0,
     attrsSentAt |-> <<>>, withheldAt |-> 0]

UpdateFromHeartbeat(member, info, leaseDuration, t) ==
    [member EXCEPT !.revision = @ + 1,
                   !.priority = info.priority,
                   !.attributes = IF info.attributes # EmptyAttributes
                                  THEN info.attributes ELSE @,
                   !.leaseDeadline = t + leaseDuration]

\* Variant: an adopted entry bumps the local revision instead of taking the
\* entry's.
UpdateFromGossipBumping(member, e) ==
    IF e.revision <= member.revision
    THEN member
    ELSE [member EXCEPT !.revision = @ + 1,
                        !.priority = e.priority,
                        !.leaseDeadline = e.leaseDeadline,
                        !.attributes = IF e.hasAttributes
                                          /\ e.attributes # EmptyAttributes
                                       THEN e.attributes ELSE @]

\* Variant: an adopted entry without attributes clears the member's.
UpdateFromGossipClearing(member, e) ==
    IF e.revision <= member.revision
    THEN member
    ELSE [member EXCEPT !.revision = e.revision,
                        !.priority = e.priority,
                        !.leaseDeadline = e.leaseDeadline,
                        !.attributes = IF e.hasAttributes
                                       THEN e.attributes ELSE EmptyAttributes]

UpdateFromGossip(member, e) ==
    IF e.revision <= member.revision
    THEN member
    ELSE [member EXCEPT !.revision = e.revision,
                        !.priority = e.priority,
                        !.leaseDeadline = e.leaseDeadline,
                        !.attributes = IF e.hasAttributes
                                          /\ e.attributes # EmptyAttributes
                                       THEN e.attributes ELSE @]

\* ------------------------------------------------------------------------
\* TGroup and TGroupManager (sections 4.2, 4.3)
\*   groups   : groupId -> (memberId -> object id)
\*   objs     : object id -> TMember (the members some pointer still holds)
\*   modified : the change set, (groupId, memberId) -> object id
\*   timer    : (groupId, memberId) -> deadline of the armed expiry timer
\* ------------------------------------------------------------------------

EmptyMap == [x \in {} |-> 0]

EmptyManager ==
    [groups |-> EmptyMap, objs |-> EmptyMap, modified |-> EmptyMap,
     timer |-> [k \in Keys |-> NoTimer]]

HasMember(st, g, m) == g \in DOMAIN st.groups /\ m \in DOMAIN st.groups[g]

MemberOf(st, g, m) == st.objs[st.groups[g][m]]

Range(f) == {f[x] : x \in DOMAIN f}

Restrict(f, S) == [x \in S |-> f[x]]

FreshObj(st) ==
    CHOOSE i \in ObjIds : i \notin DOMAIN st.objs
                          /\ \A j \in ObjIds : j < i => j \in DOMAIN st.objs

\* Group.Upsert through the manager: resolve or create group and member.
Upsert(st, g, m) ==
    IF HasMember(st, g, m)
    THEN st
    ELSE LET o == FreshObj(st)
             old == IF g \in DOMAIN st.groups THEN st.groups[g] ELSE EmptyMap
         IN [st EXCEPT !.groups = (g :> ((m :> o) @@ old)) @@ @,
                       !.objs = (o :> NewMember(g, m)) @@ @]

InsertModified(st, g, m) ==
    [st EXCEPT !.modified = (<<g, m>> :> st.groups[g][m]) @@ @]

SetMember(st, g, m, member) ==
    [st EXCEPT !.objs[st.groups[g][m]] = member]

ArmTimer(st, g, m, deadline) ==
    [st EXCEPT !.timer = [k \in Keys |-> IF k = <<g, m>> THEN deadline ELSE @[k]]]

\* ProcessHeartbeat, steps 1 - 5.  info = [id, priority, attributes].
ProcessHeartbeat(st, g, info, leaseDuration, t) ==
    LET st1 == Upsert(st, g, info.id)
        upd == UpdateFromHeartbeat(MemberOf(st1, g, info.id), info, leaseDuration, t)
        st2 == SetMember(st1, g, info.id, upd)
        st3 == InsertModified(st2, g, info.id)
    IN ArmTimer(st3, g, info.id, upd.leaseDeadline)

\* Variant: every entry is put into the change set, adopted or not.
ProcessGossipEntryAlwaysInserting(st, e) ==
    LET st1 == Upsert(st, e.groupId, e.id)
        old == MemberOf(st1, e.groupId, e.id)
        upd == UpdateFromGossip(old, e)
        st2 == SetMember(st1, e.groupId, e.id, upd)
        st3 == InsertModified(st2, e.groupId, e.id)
    IN ArmTimer(st3, e.groupId, e.id, e.leaseDeadline)

\* ProcessGossip, steps 1 - 4 for one entry.
ProcessGossipEntry(st, e) ==
    LET st1 == Upsert(st, e.groupId, e.id)
        old == MemberOf(st1, e.groupId, e.id)
        upd == UpdateFromGossip(old, e)
        st2 == SetMember(st1, e.groupId, e.id, upd)
        st3 == IF upd # old THEN InsertModified(st2, e.groupId, e.id) ELSE st2
    IN ArmTimer(st3, e.groupId, e.id, e.leaseDeadline)

RECURSIVE ProcessGossip(_, _)
ProcessGossip(st, batch) ==
    IF batch = <<>> THEN st
    ELSE ProcessGossip(ProcessGossipEntry(st, Head(batch)), Tail(batch))

\* Variant: members keyed by their id alone, so that an expiry removes the
\* member of that id from every group.
OnLeaseExpiredById(st, g, m) ==
    LET kept == [x \in DOMAIN st.groups |->
                    Restrict(st.groups[x], DOMAIN st.groups[x] \ {m})]
        grps == Restrict(kept, {x \in DOMAIN kept : DOMAIN kept[x] # {}})
    IN ArmTimer([st EXCEPT !.groups = grps], g, m, NoTimer)

\* Variant: the group stays when its last member is removed.
OnLeaseExpiredKeepingGroup(st, g, m) ==
    IF ~HasMember(st, g, m)
    THEN ArmTimer(st, g, m, NoTimer)
    ELSE LET rest == Restrict(st.groups[g], DOMAIN st.groups[g] \ {m})
         IN ArmTimer([st EXCEPT !.groups[g] = rest], g, m, NoTimer)

\* The expiry timer of (g, m) fires: Group.Remove, and the group goes with
\* its last member.  The change set gains nothing (entries accumulate on
\* heartbeat and on adoption only): an entry it already holds for the
\* member keeps pointing to the removed object, the tombstone.
OnLeaseExpired(st, g, m) ==
    IF ~HasMember(st, g, m)
    THEN ArmTimer(st, g, m, NoTimer)
    ELSE LET rest == Restrict(st.groups[g], DOMAIN st.groups[g] \ {m})
             grps == IF DOMAIN rest = {}
                     THEN Restrict(st.groups, DOMAIN st.groups \ {g})
                     ELSE [st.groups EXCEPT ![g] = rest]
         IN ArmTimer([st EXCEPT !.groups = grps], g, m, NoTimer)

\* DrainModifiedMembers: atomic swap with an empty set; <<manager, drained>>.
GetModifiedMembers(st) ==
    <<[st EXCEPT !.modified = EmptyMap], Range(st.modified)>>

\* Members are reference counted: an object lives while the group, the
\* change set or a running SendGossip (held) points to it.
Referenced(st, held) ==
    UNION {Range(st.groups[g]) : g \in DOMAIN st.groups}
        \cup Range(st.modified) \cup held

Collect(st, held) ==
    [st EXCEPT !.objs = Restrict(@, DOMAIN @ \cap Referenced(st, held))]

\* Variant: a member still counts as live at its deadline.
IsLiveAtDeadline(member, t) == member.leaseDeadline >= t

IsLive(member, t) == member.leaseDeadline > t

\* Group.Count: the number of currently live members.
GetMemberCount(st, g, t) ==
    Cardinality({m \in DOMAIN st.groups[g] : IsLive(MemberOf(st, g, m), t)})

\* GetGroupOrThrow: TRUE when the lookup succeeds.
GroupFound(st, g, t) ==
    g \in DOMAIN st.groups /\ GetMemberCount(st, g, t) > 0

\* (priority, id) order of Group.List.
RanksBefore(a, b) ==
    \/ a.priority < b.priority
    \/ a.priority = b.priority /\ IdRank[a.id] < IdRank[b.id]

RECURSIVE SortMembers(_)
SortMembers(S) ==
    IF S = {} THEN <<>>
    ELSE LET first == CHOOSE a \in S : \A b \in S \ {a} : RanksBefore(a, b)
         IN <<first>> \o SortMembers(S \ {first})

Take(seq, n) == SubSeq(seq, 1, IF n < Len(seq) THEN n ELSE Len(seq))

\* Group.List(limit): live members in (priority, id) order, at most limit.
ListMembers(st, g, limit, t) ==
    Take(SortMembers({MemberOf(st, g, m) : m \in
            {x \in DOMAIN st.groups[g] : IsLive(MemberOf(st, g, x), t)}}), limit)

\* ------------------------------------------------------------------------
\* TClientDiscoveryService
\* ------------------------------------------------------------------------

\* Variant: every attribute of the member, whatever the request asks for.
ProjectAttributesAll(member, attributeKeys) ==
    member.attributes

\* The attributes of a member that a ListMembers response carries.
ProjectAttributes(member, attributeKeys) ==
    [k \in {x \in attributeKeys : x \in DOMAIN member.attributes} |->
        member.attributes[k]]

\* Variant: the handler asks the group for one member too many.
ListMembersHandlerOffByOne(st, groupId, options, t) ==
    IF ~GroupFound(st, groupId, t)
    THEN [found |-> FALSE, members |-> <<>>]
    ELSE LET members == ListMembers(st, groupId, options.limit + 1, t)
         IN [found |-> TRUE,
             members |-> [i \in 1..Len(members) |->
                 [id |-> members[i].id,
                  priority |-> members[i].priority,
                  attributes |-> ProjectAttributes(members[i],
                                                   options.attributeKeys)]]]

\* ListMembers handler; options = [limit, attributeKeys].
ListMembersHandler(st, groupId, options, t) ==
    IF ~GroupFound(st, groupId, t)
    THEN [found |-> FALSE, members |-> <<>>]
    ELSE LET members == ListMembers(st, groupId, options.limit, t)
         IN [found |-> TRUE,
             members |-> [i \in 1..Len(members) |->
                 [id |-> members[i].id,
                  priority |-> members[i].priority,
                  attributes |-> ProjectAttributes(members[i],
                                                   options.attributeKeys)]]]

\* Variant: the handler without the lookup that throws.
GetGroupMetaHandlerNoLookup(st, groupId, t) ==
    IF groupId \notin DOMAIN st.groups
    THEN [found |-> FALSE, members |-> <<>>]
    ELSE [found |-> TRUE,
          meta |-> [memberCount |-> GetMemberCount(st, groupId, t)]]

\* GetGroupMeta handler: GetGroupOrThrow, then the live count.  A throw
\* ends the call with the error and an empty response.
GetGroupMetaHandler(st, groupId, t) ==
    IF ~GroupFound(st, groupId, t)
    THEN [found |-> FALSE, members |-> <<>>]
    ELSE [found |-> TRUE,
          meta |-> [memberCount |-> GetMemberCount(st, groupId, t)]]

\* Variant: the handler passes a fixed lease instead of the request's.
HeartbeatHandlerFixedLease(st, groupId, memberInfo, leaseTimeout, t) ==
    ProcessHeartbeat(st, groupId, memberInfo, MaxLease, t)

\* Variant: the handler replies without having forwarded the heartbeat.
HeartbeatHandlerReplyOnly(st, groupId, memberInfo, leaseTimeout, t) ==
    st

\* Heartbeat handler: forwards to the group manager, then replies.
HeartbeatHandler(st, groupId, memberInfo, leaseTimeout, t) ==
    ProcessHeartbeat(st, groupId, memberInfo, leaseTimeout, t)

\* ------------------------------------------------------------------------
\* TServerDiscoveryService
\* ------------------------------------------------------------------------

\* Variant: the handler without the flush of the last, partial batch.
RECURSIVE GossipLoopFullBatches(_, _, _)
GossipLoopFullBatches(st, rest, membersBatch) ==
    IF rest = <<>>
    THEN st
    ELSE LET b == Append(membersBatch, Head(rest))
         IN IF Len(b) >= GossipBatchSize
            THEN GossipLoopFullBatches(ProcessGossip(st, b), Tail(rest), <<>>)
            ELSE GossipLoopFullBatches(st, Tail(rest), b)

ProcessGossipFullBatchesOnly(st, members) ==
    GossipLoopFullBatches(st, members, <<>>)

\* Variant: the loop without membersBatch.clear().
RECURSIVE BatchLoopKeepingBatch(_, _, _, _, _)
BatchLoopKeepingBatch(size, st, rest, membersBatch, calls) ==
    IF rest = <<>>
    THEN IF membersBatch # <<>>
         THEN [st |-> ProcessGossip(st, membersBatch),
               calls |-> Append(calls, membersBatch)]
         ELSE [st |-> st, calls |-> calls]
    ELSE LET b == Append(membersBatch, Head(rest))
         IN IF Len(b) >= size
            THEN BatchLoopKeepingBatch(size, ProcessGossip(st, b), Tail(rest),
                                       b, Append(calls, b))
            ELSE BatchLoopKeepingBatch(size, st, Tail(rest), b, calls)

\* The loop of the ProcessGossip handler with GossipBatchSize_ = size: the
\* request's members are pushed to membersBatch one by one, a batch that
\* reached the size is applied and cleared, and what is left at the end is
\* applied.  Returns the manager and, as history, the batches applied.
RECURSIVE BatchLoop(_, _, _, _, _)
BatchLoop(size, st, rest, membersBatch, calls) ==
    IF rest = <<>>
    THEN IF membersBatch # <<>>
         THEN [st |-> ProcessGossip(st, membersBatch),
               calls |-> Append(calls, membersBatch)]
         ELSE [st |-> st, calls |-> calls]
    ELSE LET b == Append(membersBatch, Head(rest))
         IN IF Len(b) >= size
            THEN BatchLoop(size, ProcessGossip(st, b), Tail(rest),
                           <<>>, Append(calls, b))
            ELSE BatchLoop(size, st, Tail(rest), b, calls)

\* ProcessGossip handler: the request's members are applied in batches of
\* GossipBatchSize_.
GossipLoop(st, rest, membersBatch) ==
    BatchLoop(GossipBatchSize, st, rest, membersBatch, <<>>).st

ProcessGossipHandler(st, members) == GossipLoop(st, members, <<>>)

\* ------------------------------------------------------------------------
\* TDiscoveryServer::SendGossip
\* ------------------------------------------------------------------------

IdleTick == [pc |-> "idle", members |-> {}, gossipStartTime |-> 0, peers |-> {}]

\* The executor after Start(): nothing running, the first tick due.  The
\* field skipped counts the beats skipped during the running execution.
IdleExecutor == [running |-> 0, due |-> StartTime, skipped |-> 0]

RECURSIVE InOrder(_)
InOrder(S) ==
    IF S = {} THEN <<>>
    ELSE LET o == CHOOSE x \in S : \A y \in S : x <= y
         IN <<o>> \o InOrder(S \ {o})

\* Variant: the throttle opens already at AttributesUpdatePeriod.
SendsAttributesAtPeriod(member, gossipStartTime) ==
    gossipStartTime - member.lastGossipAttributesUpdateTime >= AttributesUpdatePeriod

\* The throttle of the attributes of one member.
SendsAttributes(member, gossipStartTime) ==
    gossipStartTime - member.lastGossipAttributesUpdateTime > AttributesUpdatePeriod

\* One protoMember of the request.
GossipEntry(member, gossipStartTime) ==
    [groupId |-> member.groupId,
     id |-> member.id,
     priority |-> member.priority,
     revision |-> member.revision,
     leaseDeadline |-> member.leaseDeadline,
     hasAttributes |-> SendsAttributes(member, gossipStartTime),
     attributes |-> IF SendsAttributes(member, gossipStartTime)
                    THEN member.attributes ELSE EmptyAttributes]

\* The request built for one address from the drained members.
GossipRequest(st, members, gossipStartTime) ==
    LET order == InOrder(members)
    IN [i \in 1..Len(order) |-> GossipEntry(st.objs[order[i]], gossipStartTime)]

\* Variant: the closing loop stamps every drained member.
UpdateLastGossipTimesOfAll(st, members, gossipStartTime) ==
    [st EXCEPT !.objs = [o \in DOMAIN @ |->
        IF o \in members
        THEN [@[o] EXCEPT !.lastGossipAttributesUpdateTime = gossipStartTime]
        ELSE @[o]]]

\* Variant: SendGossip without its closing loop.
UpdateLastGossipTimesNever(st, members, gossipStartTime) == st

\* The closing loop: remember when the attributes were last pushed.
UpdateLastGossipTimes(st, members, gossipStartTime) ==
    [st EXCEPT !.objs = [o \in DOMAIN @ |->
        IF o \in members /\ SendsAttributes(@[o], gossipStartTime)
        THEN [@[o] EXCEPT !.lastGossipAttributesUpdateTime = gossipStartTime]
        ELSE @[o]]]

\* History: what the tick starting at gossipStartTime does about the
\* attributes of each drained member.
RecordAttrsSent(st, members, gossipStartTime) ==
    [st EXCEPT !.objs = [o \in DOMAIN @ |->
        IF o \notin members THEN @[o]
        ELSE IF SendsAttributes(@[o], gossipStartTime)
        THEN [@[o] EXCEPT !.attrsSentAt =
                 IF @ = <<>> THEN <<gossipStartTime>>
                 ELSE <<@[Len(@)], gossipStartTime>>]
        ELSE [@[o] EXCEPT !.withheldAt = gossipStartTime]]]

\* ------------------------------------------------------------------------
\* The system: servers, clients, network, clock
\* ------------------------------------------------------------------------

NoRequest == [method |-> "none", groupId |-> "g1", limit |-> 0,
              attributeKeys |-> {}]

NoResponse == [found |-> FALSE, members |-> <<>>]

\* What the replicas are compared on.
View(st, k) ==
    IF HasMember(st, k[1], k[2])
    THEN LET member == MemberOf(st, k[1], k[2])
         IN [revision |-> member.revision, priority |-> member.priority,
             attributes |-> member.attributes,
             leaseDeadline |-> member.leaseDeadline]
    ELSE [revision |-> 0, priority |-> 0, attributes |-> EmptyAttributes,
          leaseDeadline |-> 0]

StoredRevision(st, k) ==
    IF HasMember(st, k[1], k[2]) THEN MemberOf(st, k[1], k[2]).revision ELSE 0

Max(a, b) == IF a >= b THEN a ELSE b

\* History: the highest revision each server has stored for each member.
TrackRevisions ==
    topRevision' = [s \in ServerAddresses |-> [k \in Keys |->
                       Max(topRevision[s][k], StoredRevision(gm'[s], k))]]

InitSystem ==
    /\ now = StartTime
    /\ gm = [s \in ServerAddresses |-> EmptyManager]
    /\ tick = [s \in ServerAddresses |-> IdleTick]
    /\ executor = [s \in ServerAddresses |-> IdleExecutor]
    /\ slotManager = NoSlotManager
    /\ net = {}
    /\ dirty = [s \in ServerAddresses |-> {}]
    /\ topRevision = [s \in ServerAddresses |-> [k \in Keys |-> 0]]
    /\ request = NoRequest
    /\ response = NoResponse

Init ==
    /\ InitSystem
    /\ hbLeft = MaxHeartbeats
    /\ peerLeft = 0

\* A client heartbeats member k of its group at server s.
Heartbeat(s, k, info, leaseTimeout) ==
    /\ hbLeft > 0
    /\ hbLeft' = hbLeft - 1
    /\ gm' = [gm EXCEPT ![s] = Collect(
                 HeartbeatHandler(@, k[1],
                     [id |-> k[2], priority |-> info.priority,
                      attributes |-> info.attributes], leaseTimeout, now),
                 tick[s].members)]
    /\ dirty' = [dirty EXCEPT ![s] = @ \cup {k}]
    /\ TrackRevisions
    /\ UNCHANGED <<slotManager, executor, now, tick, net, peerLeft, request, response>>

\* A gossip request reaches its destination and is handled.
ReceiveGossip(msg) ==
    /\ msg \in net
    /\ net' = net \ {msg}
    /\ LET s == msg.to
           after == ProcessGossipHandler(gm[s], msg.members)
       IN /\ gm' = [gm EXCEPT ![s] = Collect(after, tick[s].members)]
          /\ dirty' = [dirty EXCEPT ![s] =
                          @ \cup {k \in Keys : View(after, k) # View(gm[s], k)}]
    /\ TrackRevisions
    /\ UNCHANGED <<slotManager, executor, now, tick, hbLeft, peerLeft, request, response>>

\* A gossip request fails or times out: the callback only logs.  In the
\* single-server model this is also how a request to the peer leaves.
GossipFailed(msg) ==
    /\ msg \in net
    /\ net' = net \ {msg}
    /\ UNCHANGED <<slotManager, executor, now, gm, tick, hbLeft, peerLeft, dirty, topRevision,
                   request, response>>

\* Variant: SendGossip drains the change set a second time and sends what
\* the second drain returned.
SendGossipStartDrainingTwice(s) ==
    /\ tick[s].pc = "idle"
    /\ gm[s].modified # EmptyMap
    /\ Cardinality(net) < MaxInFlight
    /\ LET drained == GetModifiedMembers(GetModifiedMembers(gm[s])[1])
       IN /\ gm' = [gm EXCEPT ![s] = Collect(drained[1], drained[2])]
          /\ tick' = [tick EXCEPT ![s] =
                         [pc |-> "send", members |-> drained[2],
                          gossipStartTime |-> now,
                          peers |-> ServerAddresses \ {s}]]
    /\ dirty' = [dirty EXCEPT ![s] = {}]
    /\ UNCHANGED <<slotManager, executor, now, net, hbLeft, peerLeft, topRevision, request, response>>

\* Variant: the loop over the addresses does not skip SelfAddress_.
SendGossipBeginsToAll(addresses, s) ==
    /\ gm[s].modified # EmptyMap
    /\ Cardinality(net) < MaxInFlight
    /\ LET drained == GetModifiedMembers(gm[s])
       IN /\ gm' = [gm EXCEPT ![s] = drained[1]]
          /\ tick' = [tick EXCEPT ![s] =
                         [pc |-> "send", members |-> drained[2],
                          gossipStartTime |-> now,
                          peers |-> addresses]]
    /\ dirty' = [dirty EXCEPT ![s] = {}]
    /\ UNCHANGED <<slotManager, now, net, hbLeft, peerLeft, topRevision, request, response>>

\* SendGossip begins: drain the change set, take the start time.  A tick
\* over an empty change set sends requests without members and updates
\* nothing: it is a stuttering step and is left out.  addresses is
\* Config_->ServerAddresses; the loop skips SelfAddress_.
SendGossipBeginsAmong(addresses, s) ==
    /\ gm[s].modified # EmptyMap
    /\ Cardinality(net) < MaxInFlight
    /\ LET drained == GetModifiedMembers(gm[s])
       IN /\ gm' = [gm EXCEPT ![s] = drained[1]]
          /\ tick' = [tick EXCEPT ![s] =
                         [pc |-> "send", members |-> drained[2],
                          gossipStartTime |-> now,
                          peers |-> addresses \ {s}]]
    /\ dirty' = [dirty EXCEPT ![s] = {}]
    /\ UNCHANGED <<slotManager, now, net, hbLeft, peerLeft, topRevision, request, response>>

SendGossipBegins(s) == SendGossipBeginsAmong(ServerAddresses, s)

\* The executor calls SendGossip when no call of it is running; when that
\* is, is left open.
SendGossipStart(s) ==
    /\ tick[s].pc = "idle"
    /\ SendGossipBegins(s)
    /\ UNCHANGED executor

\* Variant: the push times are written after each request, not after the
\* last.
SendGossipIterationStampingEach(addresses, s, address) ==
    /\ tick[s].pc = "send"
    /\ address \in tick[s].peers
    /\ net' = net \cup {[to |-> address,
                         members |-> GossipRequest(gm[s], tick[s].members,
                                                   tick[s].gossipStartTime)]}
    /\ LET sent == IF tick[s].peers = addresses \ {s}
                   THEN RecordAttrsSent(gm[s], tick[s].members,
                                        tick[s].gossipStartTime)
                   ELSE gm[s]
           stamped == UpdateLastGossipTimes(sent, tick[s].members,
                                            tick[s].gossipStartTime)
       IN IF tick[s].peers = {address}
          THEN /\ gm' = [gm EXCEPT ![s] = Collect(stamped, {})]
               /\ tick' = [tick EXCEPT ![s] = IdleTick]
          ELSE /\ gm' = [gm EXCEPT ![s] = stamped]
               /\ tick' = [tick EXCEPT ![s].peers = @ \ {address}]
    /\ UNCHANGED <<slotManager, now, hbLeft, peerLeft, dirty, topRevision, request, response>>

\* One iteration of the loop over the addresses: build and invoke.  After
\* the last address the closing loop runs: it writes only the push times,
\* which no other handler reads or writes, so it is taken in the same step.
SendGossipIterationAmong(addresses, s, address) ==
    /\ tick[s].pc = "send"
    /\ address \in tick[s].peers
    /\ net' = net \cup {[to |-> address,
                         members |-> GossipRequest(gm[s], tick[s].members,
                                                   tick[s].gossipStartTime)]}
    /\ LET sent == IF tick[s].peers = addresses \ {s}
                   THEN RecordAttrsSent(gm[s], tick[s].members,
                                        tick[s].gossipStartTime)
                   ELSE gm[s]
       IN IF tick[s].peers = {address}
          THEN /\ gm' = [gm EXCEPT ![s] = Collect(
                            UpdateLastGossipTimes(sent, tick[s].members,
                                                  tick[s].gossipStartTime), {})]
               /\ tick' = [tick EXCEPT ![s] = IdleTick]
          ELSE /\ gm' = [gm EXCEPT ![s] = sent]
               /\ tick' = [tick EXCEPT ![s].peers = @ \ {address}]
    /\ UNCHANGED <<slotManager, now, hbLeft, peerLeft, dirty, topRevision, request, response>>

SendGossipIteration(s, address) ==
    SendGossipIterationAmong(ServerAddresses, s, address)

SendGossipToPeer(s, address) ==
    /\ SendGossipIteration(s, address)
    /\ UNCHANGED executor

\* The expiry timer of member k fires on server s, at its deadline or later.
LeaseExpired(s, k) ==
    /\ gm[s].timer[k] # NoTimer
    /\ gm[s].timer[k] <= now
    /\ gm' = [gm EXCEPT ![s] = Collect(OnLeaseExpired(@, k[1], k[2]),
                                       tick[s].members)]
    /\ TrackRevisions
    /\ UNCHANGED <<slotManager, executor, now, tick, net, hbLeft, peerLeft, dirty, request, response>>

AdvanceTime ==
    /\ now < MaxTime
    /\ now' = now + 1
    /\ UNCHANGED <<slotManager, executor, gm, tick, net, hbLeft, peerLeft, dirty, topRevision,
                   request, response>>

\* Two servers and their clients.
Next ==
    \/ \E s \in ServerAddresses, k \in HbKeys, info \in HbInfos,
          leaseTimeout \in LeaseTimeouts : Heartbeat(s, k, info, leaseTimeout)
    \/ \E msg \in net : ReceiveGossip(msg)
    \/ \E msg \in net : GossipFailed(msg)
    \/ \E s \in ServerAddresses : SendGossipStart(s)
    \/ \E s \in ServerAddresses, address \in ServerAddresses :
          SendGossipToPeer(s, address)
    \/ \E s \in ServerAddresses, k \in Keys : LeaseExpired(s, k)
    \/ AdvanceTime

Spec == Init /\ [][Next]_vars

\* Two servers, no request fails, and every client heartbeats at Self, the
\* home server of its member.
NextReliable ==
    \/ \E k \in HbKeys, info \in HbInfos, leaseTimeout \in LeaseTimeouts :
          Heartbeat(Self, k, info, leaseTimeout)
    \/ \E msg \in net : ReceiveGossip(msg)
    \/ \E s \in ServerAddresses : SendGossipStart(s)
    \/ \E s \in ServerAddresses, address \in ServerAddresses :
          SendGossipToPeer(s, address)
    \/ \E s \in ServerAddresses, k \in Keys : LeaseExpired(s, k)
    \/ AdvanceTime

ReliableSpec == Init /\ [][NextReliable]_vars

\* ------------------------------------------------------------------------
\* One server with its clients; the peer is the environment and may send
\* any request.
\* ------------------------------------------------------------------------

\* What the peer sends: one member at some revision, with or without its
\* attributes.
PeerEntries ==
    {[groupId |-> k[1], id |-> k[2], priority |-> 2,
      revision |-> r, leaseDeadline |-> MaxTime,
      hasAttributes |-> h,
      attributes |-> IF h THEN AttrY ELSE EmptyAttributes] :
        k \in HbKeys, r \in 1..MaxPeerRevision, h \in BOOLEAN}

InitServer ==
    /\ InitSystem
    /\ hbLeft = MaxHomeHeartbeats
    /\ peerLeft = MaxPeerGossip

\* The peer sends a request to server s.
PeerGossip(s, members) ==
    /\ peerLeft > 0
    /\ Cardinality(net) < MaxInFlight
    /\ peerLeft' = peerLeft - 1
    /\ net' = net \cup {[to |-> s, members |-> members]}
    /\ UNCHANGED <<slotManager, executor, now, gm, tick, hbLeft, dirty, topRevision, request, response>>

NextServer ==
    \/ \E k \in ServerKeys, info \in HbInfos, leaseTimeout \in LeaseTimeouts :
          Heartbeat(Self, k, info, leaseTimeout)
    \/ \E e \in PeerEntries : PeerGossip(Self, <<e>>)
    \/ \E msg \in net : msg.to = Self /\ ReceiveGossip(msg)
    \/ \E msg \in net : GossipFailed(msg)
    \/ SendGossipStart(Self)
    \/ \E address \in ServerAddresses : SendGossipToPeer(Self, address)
    \/ \E k \in Keys : LeaseExpired(Self, k)
    \/ AdvanceTime

ServerSpec == InitServer /\ [][NextServer]_vars

\* ------------------------------------------------------------------------
\* One server with the periodic executor of its gossip: a beat every
\* GossipPeriod, SendGossip run on a beat unless the last run has not
\* returned yet.
\* ------------------------------------------------------------------------

\* Config_->GossipPeriod.
GossipPeriod == 1

\* Variant: the executor runs the callback on every beat.
BeatInParallel(s) ==
    /\ now >= executor[s].due
    /\ SendGossipBegins(s)
    /\ executor' = [executor EXCEPT ![s] =
                        [running |-> @.running + 1,
                         due |-> @.due + GossipPeriod, skipped |-> 0]]

\* The period has elapsed on server s (the timer of the executor fires, on
\* time or late): SendGossip is called unless a call is running, in which
\* case the beat is skipped.
Beat(s) ==
    /\ now >= executor[s].due
    /\ IF executor[s].running = 0
       THEN /\ SendGossipBegins(s)
            /\ executor' = [executor EXCEPT ![s] =
                                [running |-> 1, due |-> @.due + GossipPeriod,
                                 skipped |-> 0]]
       ELSE /\ executor' = [executor EXCEPT ![s].due = @ + GossipPeriod,
                                            ![s].skipped = 1]
            /\ UNCHANGED <<slotManager, now, gm, tick, net, hbLeft, peerLeft, dirty,
                           topRevision, request, response>>

\* The running SendGossip goes through one address; it returns after the
\* last one.
SendGossipRuns(s, address) ==
    /\ SendGossipIteration(s, address)
    /\ executor' = [executor EXCEPT ![s].running =
                        IF tick[s].peers = {address} THEN @ - 1 ELSE @]

InitExecutor ==
    /\ InitSystem
    /\ hbLeft = MaxHomeHeartbeats
    /\ peerLeft = 0

NextExecutor ==
    \/ \E k \in ServerKeys, info \in HbInfos, leaseTimeout \in LeaseTimeouts :
          Heartbeat(Self, k, info, leaseTimeout)
    \/ Beat(Self)
    \/ \E address \in ServerAddresses : SendGossipRuns(Self, address)
    \/ \E msg \in net : GossipFailed(msg)
    \/ \E k \in Keys : LeaseExpired(Self, k)
    \/ AdvanceTime

ExecutorSpec == InitExecutor /\ [][NextExecutor]_vars

\* ------------------------------------------------------------------------
\* SendGossip statement by statement, next to the Heartbeat handler: the
\* two run on different invokers (serverInvoker, gossipInvoker), so a
\* heartbeat can come between any two reads SendGossip makes of a member.
\* ------------------------------------------------------------------------

InitInterleaved ==
    /\ now = StartTime
    /\ gm = [s \in ServerAddresses |-> EmptyManager]
    /\ tick = [s \in ServerAddresses |-> IdleTick]
    /\ executor = [s \in ServerAddresses |-> IdleExecutor]
    /\ slotManager = NoSlotManager
    /\ net = {}
    /\ hbLeft = MaxHomeHeartbeats
    /\ peerLeft = 0
    /\ dirty = [s \in ServerAddresses |-> {}]
    /\ topRevision = [s \in ServerAddresses |-> [k \in Keys |-> 0]]
    /\ request = <<>>
    /\ response = NoResponse

\* A heartbeat for member k at server s; the state it leaves the member in
\* is appended to the history, so that request[r] is the member at
\* revision r.
HeartbeatAtHome(s, k, info, leaseTimeout) ==
    /\ hbLeft > 0
    /\ hbLeft' = hbLeft - 1
    /\ gm' = [gm EXCEPT ![s] = Collect(
                 HeartbeatHandler(@, k[1],
                     [id |-> k[2], priority |-> info.priority,
                      attributes |-> info.attributes], leaseTimeout, now),
                 tick[s].members)]
    /\ dirty' = [dirty EXCEPT ![s] = @ \cup {k}]
    /\ TrackRevisions
    /\ request' = Append(request, View(gm'[s], k))
    /\ UNCHANGED <<slotManager, executor, now, tick, net, peerLeft, response>>

\* Lines 286-289: the next protoMember of the request for address; id and
\* priority are read from the member.
ReadPriority(s, address) ==
    /\ tick[s].pc \in {"send", "priority"}
    /\ IF tick[s].pc = "send" THEN address \in tick[s].peers
                               ELSE address = tick[s].address
    /\ LET rest == IF tick[s].pc = "send" THEN InOrder(tick[s].members)
                                           ELSE tick[s].rest
           built == IF tick[s].pc = "send" THEN <<>> ELSE tick[s].built
           member == gm[s].objs[Head(rest)]
       IN tick' = [tick EXCEPT ![s] =
                      [pc |-> "reader", members |-> @.members,
                       gossipStartTime |-> @.gossipStartTime,
                       peers |-> @.peers, address |-> address,
                       rest |-> rest, built |-> built,
                       entry |-> [id |-> member.id,
                                  priority |-> member.priority]]]
    /\ UNCHANGED <<slotManager, executor, now, gm, net, hbLeft, peerLeft, dirty,
                   topRevision, request, response>>

\* Lines 291-298: under the reader, the attributes (if the throttle lets
\* them through) and the revision.
ReadUnderReader(s) ==
    /\ tick[s].pc = "reader"
    /\ LET member == gm[s].objs[Head(tick[s].rest)]
           sends == SendsAttributes(member, tick[s].gossipStartTime)
       IN tick' = [tick EXCEPT ![s].pc = "deadline",
                               ![s].entry =
                                   [id |-> @.id, priority |-> @.priority,
                                    hasAttributes |-> sends,
                                    attributes |-> IF sends
                                                   THEN member.attributes
                                                   ELSE EmptyAttributes,
                                    revision |-> member.revision]]
    /\ UNCHANGED <<slotManager, executor, now, gm, net, hbLeft, peerLeft, dirty,
                   topRevision, request, response>>

\* Lines 300-301: group id and lease deadline.  After the last member the
\* request is invoked (303), and after the last address the closing loop
\* runs (313-317).
ReadLeaseDeadline(s) ==
    /\ tick[s].pc = "deadline"
    /\ LET member == gm[s].objs[Head(tick[s].rest)]
           entry == [groupId |-> member.groupId,
                     id |-> tick[s].entry.id,
                     priority |-> tick[s].entry.priority,
                     revision |-> tick[s].entry.revision,
                     leaseDeadline |-> member.leaseDeadline,
                     hasAttributes |-> tick[s].entry.hasAttributes,
                     attributes |-> tick[s].entry.attributes]
           built == Append(tick[s].built, entry)
           rest == Tail(tick[s].rest)
       IN IF rest # <<>>
          THEN /\ tick' = [tick EXCEPT ![s].pc = "priority",
                                       ![s].rest = rest,
                                       ![s].built = built]
               /\ UNCHANGED <<gm, net>>
          ELSE /\ net' = net \cup {[to |-> tick[s].address, members |-> built]}
               /\ IF tick[s].peers = {tick[s].address}
                  THEN /\ gm' = [gm EXCEPT ![s] = Collect(
                                    UpdateLastGossipTimes(
                                        RecordAttrsSent(@, tick[s].members,
                                            tick[s].gossipStartTime),
                                        tick[s].members,
                                        tick[s].gossipStartTime), {})]
                       /\ tick' = [tick EXCEPT ![s] = IdleTick]
                  ELSE /\ gm' = gm
                       /\ tick' = [tick EXCEPT ![s] =
                                      [pc |-> "send", members |-> @.members,
                                       gossipStartTime |-> @.gossipStartTime,
                                       peers |-> @.peers \ {@.address}]]
    /\ UNCHANGED <<slotManager, executor, now, hbLeft, peerLeft, dirty, topRevision,
                   request, response>>

NextInterleaved ==
    \/ \E k \in HbKeys, info \in HbInfos, leaseTimeout \in LeaseTimeouts :
          HeartbeatAtHome(Self, k, info, leaseTimeout)
    \/ SendGossipStart(Self)
    \/ \E address \in ServerAddresses : ReadPriority(Self, address)
    \/ ReadUnderReader(Self)
    \/ ReadLeaseDeadline(Self)
    \/ \E msg \in net : ReceiveGossip(msg)
    \/ \E msg \in net : GossipFailed(msg)

InterleavedSpec == InitInterleaved /\ [][NextInterleaved]_vars

\* ------------------------------------------------------------------------
\* The gossip receiver alone: a manager some heartbeats have built, and one
\* request in flight to it.
\* ------------------------------------------------------------------------

\* Highest revision in a request of the receiver model.
MaxGossipRevision == 3

\* Managers after zero, one or two heartbeats, drained or not.
HeartbeatsOn(S) ==
    {ProcessHeartbeat(st, k[1], [id |-> k[2], priority |-> info.priority,
                                 attributes |-> info.attributes],
                      leaseTimeout, StartTime) :
        st \in S, k \in HbKeys, info \in HbInfos, leaseTimeout \in LeaseTimeouts}

ReceiverStates ==
    LET s1 == HeartbeatsOn({EmptyManager})
        all == {EmptyManager} \cup s1 \cup HeartbeatsOn(s1)
    IN all \cup {GetModifiedMembers(st)[1] : st \in all}

GossipInfos ==
    {[priority |-> info.priority, hasAttributes |-> TRUE,
      attributes |-> info.attributes] : info \in HbInfos}
    \cup {[priority |-> 2, hasAttributes |-> FALSE,
            attributes |-> EmptyAttributes]}

GossipEntries ==
    {[groupId |-> k[1], id |-> k[2], priority |-> info.priority,
      revision |-> r, leaseDeadline |-> d,
      hasAttributes |-> info.hasAttributes, attributes |-> info.attributes] :
        k \in ServerKeys, info \in GossipInfos, r \in 1..MaxGossipRevision,
        d \in {StartTime + 1, MaxTime + 1}}

InitGossip ==
    /\ now = StartTime
    /\ \E st \in ReceiverStates :
          gm = [s \in ServerAddresses |-> IF s = Self THEN st ELSE EmptyManager]
    /\ tick = [s \in ServerAddresses |-> IdleTick]
    /\ executor = [s \in ServerAddresses |-> IdleExecutor]
    /\ slotManager = NoSlotManager
    /\ \E e \in GossipEntries : net = {[to |-> Self, members |-> <<e>>]}
    /\ hbLeft = 0
    /\ peerLeft = 0
    /\ dirty = [s \in ServerAddresses |-> {}]
    /\ topRevision = [s \in ServerAddresses |-> [k \in Keys |->
                         StoredRevision(gm[s], k)]]
    /\ request = NoRequest
    /\ response = NoResponse

NextGossip ==
    \E msg \in net : ReceiveGossip(msg)

GossipSpec == InitGossip /\ [][NextGossip]_vars

\* ------------------------------------------------------------------------
\* The queries alone: a manager some heartbeats have built, read at some
\* later time.
\* ------------------------------------------------------------------------

AttrZ == [k \in AttrKeys |-> IF k = "host" THEN "h2" ELSE "r1"]

ListInfos == {[priority |-> 1, attributes |-> AttrX],
              [priority |-> 2, attributes |-> AttrZ]}

\* What a client may have done about one member before the query: nothing,
\* or one heartbeat.
MemberChoices ==
    {[beats |-> FALSE, info |-> [priority |-> 1, attributes |-> AttrX],
      leaseTimeout |-> 1]}
    \cup {[beats |-> TRUE, info |-> info, leaseTimeout |-> l] :
            info \in ListInfos, l \in LeaseTimeouts}

RECURSIVE HeartbeatEach(_, _, _, _)
HeartbeatEach(st, g, ids, choice) ==
    IF ids = {} THEN st
    ELSE LET m == CHOOSE x \in ids : \A y \in ids : IdRank[x] <= IdRank[y]
             next == IF choice[m].beats
                     THEN ProcessHeartbeat(st, g,
                              [id |-> m, priority |-> choice[m].info.priority,
                               attributes |-> choice[m].info.attributes],
                              choice[m].leaseTimeout, StartTime)
                     ELSE st
         IN HeartbeatEach(next, g, ids \ {m}, choice)

InitList ==
    /\ now \in StartTime..MaxTime
    /\ \E choice \in [MemberIds -> MemberChoices], other \in BOOLEAN :
          LET g1 == HeartbeatEach(EmptyManager, "g1", MemberIds, choice)
              st == IF other
                    THEN ProcessHeartbeat(g1, "g2",
                             [id |-> "m1", priority |-> 1, attributes |-> AttrZ],
                             MaxLease, StartTime)
                    ELSE g1
          IN gm = [s \in ServerAddresses |-> IF s = Self THEN st ELSE EmptyManager]
    /\ tick = [s \in ServerAddresses |-> IdleTick]
    /\ executor = [s \in ServerAddresses |-> IdleExecutor]
    /\ slotManager = NoSlotManager
    /\ net = {}
    /\ hbLeft = 0
    /\ peerLeft = 0
    /\ dirty = [s \in ServerAddresses |-> {}]
    /\ topRevision = [s \in ServerAddresses |-> [k \in Keys |->
                         StoredRevision(gm[s], k)]]
    /\ request = NoRequest
    /\ response = NoResponse

\* A client calls ListMembers on server s.
ListMembersCall(s, groupId, options) ==
    /\ request' = [method |-> "ListMembers", groupId |-> groupId,
                   limit |-> options.limit,
                   attributeKeys |-> options.attributeKeys]
    /\ response' = ListMembersHandler(gm[s], groupId, options, now)
    /\ UNCHANGED <<slotManager, executor, now, gm, tick, net, hbLeft, peerLeft, dirty, topRevision>>

NextList ==
    \E groupId \in GroupIds, limit \in 0..MaxLimit, keys \in SUBSET AttrKeys :
        ListMembersCall(Self, groupId, [limit |-> limit, attributeKeys |-> keys])

ListSpec == InitList /\ [][NextList]_vars

\* A client calls GetGroupMeta on server s.
GetGroupMetaCall(s, groupId) ==
    /\ request' = [method |-> "GetGroupMeta", groupId |-> groupId]
    /\ response' = GetGroupMetaHandler(gm[s], groupId, now)
    /\ UNCHANGED <<slotManager, executor, now, gm, tick, net, hbLeft, peerLeft, dirty, topRevision>>

\* Both queries on the same managers.
NextQuery ==
    \/ \E groupId \in GroupIds, limit \in 0..MaxLimit, keys \in SUBSET AttrKeys :
          ListMembersCall(Self, groupId, [limit |-> limit, attributeKeys |-> keys])
    \/ \E groupId \in GroupIds : GetGroupMetaCall(Self, groupId)

QuerySpec == InitList /\ [][NextQuery]_vars

\* ------------------------------------------------------------------------
\* The Heartbeat handler with whatever a client may send: lease timeouts
\* from zero to beyond the longest lease the deployment allows.
\* ------------------------------------------------------------------------

\* Lease timeouts a client can put into a request; LeaseTimeouts are the
\* ones within [MinLease, MaxLease].
AnyLeaseTimeouts == 0..(MaxLease + 1)

\* context->Reply() without an error.
ReplyOk == [error |-> "none"]

\* A client calls Heartbeat on server s; the call is kept with its reply.
HeartbeatCall(s, k, info, leaseTimeout) ==
    /\ hbLeft > 0
    /\ hbLeft' = hbLeft - 1
    /\ gm' = [gm EXCEPT ![s] = Collect(
                 HeartbeatHandler(@, k[1],
                     [id |-> k[2], priority |-> info.priority,
                      attributes |-> info.attributes], leaseTimeout, now),
                 tick[s].members)]
    /\ dirty' = [dirty EXCEPT ![s] = @ \cup {k}]
    /\ TrackRevisions
    /\ request' = [method |-> "Heartbeat", groupId |-> k[1], id |-> k[2],
                   priority |-> info.priority, attributes |-> info.attributes,
                   leaseTimeout |-> leaseTimeout, at |-> now]
    /\ response' = ReplyOk
    /\ UNCHANGED <<slotManager, executor, now, tick, net, peerLeft>>

InitValidation ==
    /\ InitSystem
    /\ hbLeft = MaxHomeHeartbeats
    /\ peerLeft = 0

NextValidation ==
    \/ \E k \in ServerKeys, info \in HbInfos, leaseTimeout \in AnyLeaseTimeouts :
          HeartbeatCall(Self, k, info, leaseTimeout)
    \/ \E k \in Keys : LeaseExpired(Self, k)
    \/ AdvanceTime

ValidationSpec == InitValidation /\ [][NextValidation]_vars

\* ------------------------------------------------------------------------
\* One server and every endpoint of its two services, each call handled
\* in one step and kept with its reply; time passes and leases expire in
\* between.
\* ------------------------------------------------------------------------

\* Members the clients of the endpoint model heartbeat.
EndpointKeys == ServerKeys \cup {<<"g1", "m2">>}

\* Member infos of the endpoint model: the last one carries no attributes.
EndpointInfos ==
    {[priority |-> 1, attributes |-> AttrX],
     [priority |-> 2, attributes |-> AttrZ],
     [priority |-> 3, attributes |-> EmptyAttributes]}

\* ListMembers options of the endpoint model.
EndpointOptions ==
    {[limit |-> limit, attributeKeys |-> keys] :
        limit \in {MaxLimit}, keys \in {AttrKeys}}

InitEndpoint ==
    /\ InitSystem
    /\ hbLeft = MaxHomeHeartbeats
    /\ peerLeft = MaxPeerGossip

\* The peer calls ProcessGossip on server s.
GossipCall(s, members) ==
    /\ peerLeft > 0
    /\ peerLeft' = peerLeft - 1
    /\ LET after == ProcessGossipHandler(gm[s], members)
       IN /\ gm' = [gm EXCEPT ![s] = Collect(after, tick[s].members)]
          /\ dirty' = [dirty EXCEPT ![s] =
                          @ \cup {k \in Keys : View(after, k) # View(gm[s], k)}]
    /\ TrackRevisions
    /\ request' = [method |-> "ProcessGossip", members |-> members]
    /\ response' = ReplyOk
    /\ UNCHANGED <<slotManager, executor, now, tick, net, hbLeft>>

NextEndpoint ==
    \/ \E k \in EndpointKeys, info \in EndpointInfos,
          leaseTimeout \in LeaseTimeouts :
          HeartbeatCall(Self, k, info, leaseTimeout)
    \/ \E e \in PeerEntries : GossipCall(Self, <<e>>)
    \/ \E groupId \in GroupIds, options \in EndpointOptions :
          ListMembersCall(Self, groupId, options)
    \/ \E groupId \in GroupIds : GetGroupMetaCall(Self, groupId)
    \/ \E k \in Keys : LeaseExpired(Self, k)
    \/ AdvanceTime

EndpointSpec == InitEndpoint /\ [][NextEndpoint]_vars

\* ------------------------------------------------------------------------
\* The batching of the ProcessGossip handler alone: one request of any
\* length, handled with any GossipBatchSize_ >= 1.
\* ------------------------------------------------------------------------

\* Longest request.
MaxGossipLen == 5

\* Largest GossipBatchSize_.
MaxBatchSize == 3

\* Entries whose order of application shows: two revisions of one member,
\* the later without attributes, and a member of another group.
BatchEntries ==
    {[groupId |-> "g1", id |-> "m1", priority |-> 1, revision |-> 1,
      leaseDeadline |-> MaxTime + 1, hasAttributes |-> TRUE,
      attributes |-> AttrX],
     [groupId |-> "g1", id |-> "m1", priority |-> 2, revision |-> 2,
      leaseDeadline |-> MaxTime + 1, hasAttributes |-> FALSE,
      attributes |-> EmptyAttributes],
     [groupId |-> "g2", id |-> "m1", priority |-> 1, revision |-> 1,
      leaseDeadline |-> StartTime + 1, hasAttributes |-> TRUE,
      attributes |-> AttrY]}

GossipRequests ==
    UNION {[1..n -> BatchEntries] : n \in 0..MaxGossipLen}

InitBatch ==
    /\ now = StartTime
    /\ \E st \in {EmptyManager} \cup HeartbeatsOn({EmptyManager}) :
          gm = [s \in ServerAddresses |-> IF s = Self THEN st ELSE EmptyManager]
    /\ tick = [s \in ServerAddresses |-> IdleTick]
    /\ executor = [s \in ServerAddresses |-> IdleExecutor]
    /\ slotManager = NoSlotManager
    /\ net = {}
    /\ hbLeft = 0
    /\ peerLeft = 0
    /\ dirty = [s \in ServerAddresses |-> {}]
    /\ topRevision = [s \in ServerAddresses |-> [k \in Keys |->
                         StoredRevision(gm[s], k)]]
    /\ \E members \in GossipRequests, size \in 1..MaxBatchSize :
          request = [members |-> members, batchSize |-> size]
    /\ response = [done |-> FALSE, calls |-> <<>>]

\* The handler runs on the request.
HandleGossip ==
    /\ ~response.done
    /\ LET r == BatchLoop(request.batchSize, gm[Self], request.members,
                          <<>>, <<>>)
       IN /\ gm' = [gm EXCEPT ![Self] = Collect(r.st, {})]
          /\ response' = [done |-> TRUE, calls |-> r.calls]
    /\ TrackRevisions
    /\ UNCHANGED <<slotManager, executor, now, tick, net, hbLeft, peerLeft, dirty, request>>

NextBatch == HandleGossip

BatchSpec == InitBatch /\ [][NextBatch]_vars

\* ------------------------------------------------------------------------
\* One server with two peers: the fan-out of a tick, and what a failed
\* request does to it.
\* ------------------------------------------------------------------------

\* Config_->ServerAddresses of the server: itself and two peers.
FanoutAddresses == {"A", "B", "C"}

NoFailure == [method |-> "none", to |-> Self, pending |-> {}, modified |-> {}]

InitFanout ==
    /\ now = StartTime
    /\ gm = [s \in ServerAddresses |-> EmptyManager]
    /\ tick = [s \in ServerAddresses |-> IdleTick]
    /\ executor = [s \in ServerAddresses |-> IdleExecutor]
    /\ slotManager = NoSlotManager
    /\ net = {}
    /\ dirty = [s \in ServerAddresses |-> {}]
    /\ topRevision = [s \in ServerAddresses |-> [k \in Keys |-> 0]]
    /\ request = NoFailure
    /\ response = NoResponse
    /\ hbLeft = MaxHomeHeartbeats
    /\ peerLeft = 0

SendGossipFanoutStart ==
    /\ tick[Self].pc = "idle"
    /\ SendGossipBeginsAmong(FanoutAddresses, Self)
    /\ UNCHANGED executor

SendGossipFanout(address) ==
    /\ SendGossipIterationAmong(FanoutAddresses, Self, address)
    /\ UNCHANGED executor

\* Variant: the callback of a failed request puts the members of the tick
\* back into the change set.
DispatchFailedPuttingBack(msg) ==
    /\ msg \in net
    /\ net' = net \ {msg}
    /\ LET back == {k \in Keys :
                        /\ HasMember(gm[Self], k[1], k[2])
                        /\ \E i \in 1..Len(msg.members) :
                              <<msg.members[i].groupId, msg.members[i].id>> = k}
       IN gm' = [gm EXCEPT ![Self].modified =
                     [k \in DOMAIN @ \cup back |->
                         IF k \in DOMAIN @ THEN @[k]
                         ELSE gm[Self].groups[k[1]][k[2]]]]
    /\ request' = [method |-> "failed", to |-> msg.to,
                   pending |-> tick[Self].peers,
                   modified |-> DOMAIN gm[Self].modified]
    /\ UNCHANGED <<slotManager, executor, now, tick, hbLeft, peerLeft, dirty, topRevision,
                   response>>

\* The callback subscribed to a request runs with an error: the failure is
\* logged.  History: the peer, the addresses the tick had still to go to
\* and the change set, at the time of the failure.
DispatchFailed(msg) ==
    /\ msg \in net
    /\ net' = net \ {msg}
    /\ request' = [method |-> "failed", to |-> msg.to,
                   pending |-> tick[Self].peers,
                   modified |-> DOMAIN gm[Self].modified]
    /\ UNCHANGED <<slotManager, executor, now, gm, tick, hbLeft, peerLeft, dirty,
                   topRevision, response>>

NextFanout ==
    \/ \E k \in ServerKeys, info \in HbInfos, leaseTimeout \in LeaseTimeouts :
          Heartbeat(Self, k, info, leaseTimeout)
    \/ SendGossipFanoutStart
    \/ \E address \in FanoutAddresses : SendGossipFanout(address)
    \/ \E msg \in net : DispatchFailed(msg)
    \/ \E k \in Keys : LeaseExpired(Self, k)
    \/ AdvanceTime

FanoutSpec == InitFanout /\ [][NextFanout]_vars

\* ------------------------------------------------------------------------
\* Heartbeat handlers running in parallel on one server.  A handler reads
\* its request and calls ProcessHeartbeat, whose steps 1 - 5 each take their
\* own guard: the group's, the member's, the change set's, the timer's.
\*   request[h] : the handler's position, its request, and history: the
\*                revision it found, the revision it gave, when, and how
\*                many handlers had started before it
\* ------------------------------------------------------------------------

\* Number of handlers of the service context.
MaxHandlers == 2

HandlerIds == 1..MaxHandlers

IdleHandler ==
    [pc |-> "idle", key |-> <<"g1", "m1">>,
     info |-> [priority |-> 0, attributes |-> EmptyAttributes],
     leaseTimeout |-> 0, seen |-> 0, revision |-> 0, at |-> 0, started |-> 0]

Updated == {"updated", "inserted", "armed", "done"}

InitHandlers ==
    /\ now = StartTime
    /\ gm = [s \in ServerAddresses |-> EmptyManager]
    /\ tick = [s \in ServerAddresses |-> IdleTick]
    /\ executor = [s \in ServerAddresses |-> IdleExecutor]
    /\ slotManager = NoSlotManager
    /\ net = {}
    /\ dirty = [s \in ServerAddresses |-> {}]
    /\ topRevision = [s \in ServerAddresses |-> [k \in Keys |-> 0]]
    /\ request = [h \in HandlerIds |-> IdleHandler]
    /\ response = NoResponse
    /\ hbLeft = 0
    /\ peerLeft = 0

\* Lines 119-126: the handler has its request.
HandlerStarts(h, k, info, leaseTimeout) ==
    /\ request[h].pc = "idle"
    /\ request' = [request EXCEPT ![h] =
                       [@ EXCEPT !.pc = "parsed", !.key = k, !.info = info,
                                 !.leaseTimeout = leaseTimeout,
                                 !.started = Cardinality(
                                     {x \in HandlerIds : request[x].pc # "idle"})]]
    /\ UNCHANGED <<slotManager, executor, now, gm, tick, net, hbLeft, peerLeft, dirty,
                   topRevision, response>>

\* ProcessHeartbeat, steps 1 and 2: resolve or create group and member.
HandlerResolves(h) ==
    /\ request[h].pc = "parsed"
    /\ LET k == request[h].key
           st == Upsert(gm[Self], k[1], k[2])
       IN /\ gm' = [gm EXCEPT ![Self] = st]
          /\ request' = [request EXCEPT ![h] =
                [@ EXCEPT !.pc = "resolved",
                          !.seen = MemberOf(st, k[1], k[2]).revision]]
    /\ UNCHANGED <<slotManager, executor, now, tick, net, hbLeft, peerLeft, dirty,
                   topRevision, response>>

\* Variant: the update writes one above the revision the handler found
\* when it resolved the member.
HandlerUpdatesFromSeen(h) ==
    /\ request[h].pc = "resolved"
    /\ LET k == request[h].key
           upd == [UpdateFromHeartbeat(MemberOf(gm[Self], k[1], k[2]),
                       [id |-> k[2], priority |-> request[h].info.priority,
                        attributes |-> request[h].info.attributes],
                       request[h].leaseTimeout, now)
                   EXCEPT !.revision = request[h].seen + 1]
       IN /\ gm' = [gm EXCEPT ![Self] = SetMember(@, k[1], k[2], upd)]
          /\ request' = [request EXCEPT ![h] =
                [@ EXCEPT !.pc = "updated", !.revision = upd.revision,
                          !.at = now]]
    /\ TrackRevisions
    /\ UNCHANGED <<slotManager, executor, now, tick, net, hbLeft, peerLeft, dirty, response>>

\* ProcessHeartbeat, step 3: UpdateFromHeartbeat under the member's guard.
HandlerUpdates(h) ==
    /\ request[h].pc = "resolved"
    /\ LET k == request[h].key
           upd == UpdateFromHeartbeat(MemberOf(gm[Self], k[1], k[2]),
                      [id |-> k[2], priority |-> request[h].info.priority,
                       attributes |-> request[h].info.attributes],
                      request[h].leaseTimeout, now)
       IN /\ gm' = [gm EXCEPT ![Self] = SetMember(@, k[1], k[2], upd)]
          /\ request' = [request EXCEPT ![h] =
                [@ EXCEPT !.pc = "updated", !.revision = upd.revision,
                          !.at = now]]
    /\ TrackRevisions
    /\ UNCHANGED <<slotManager, executor, now, tick, net, hbLeft, peerLeft, dirty, response>>

\* ProcessHeartbeat, step 4: insert the member into the change set.
HandlerInserts(h) ==
    /\ request[h].pc = "updated"
    /\ gm' = [gm EXCEPT ![Self] =
                  InsertModified(@, request[h].key[1], request[h].key[2])]
    /\ dirty' = [dirty EXCEPT ![Self] = @ \cup {request[h].key}]
    /\ request' = [request EXCEPT ![h].pc = "inserted"]
    /\ UNCHANGED <<slotManager, executor, now, tick, net, hbLeft, peerLeft, topRevision,
                   response>>

\* ProcessHeartbeat, step 5: arm or refresh the timer at the deadline the
\* update set.
HandlerArms(h) ==
    /\ request[h].pc = "inserted"
    /\ gm' = [gm EXCEPT ![Self] =
                  ArmTimer(@, request[h].key[1], request[h].key[2],
                           request[h].at + request[h].leaseTimeout)]
    /\ request' = [request EXCEPT ![h].pc = "armed"]
    /\ UNCHANGED <<slotManager, executor, now, tick, net, hbLeft, peerLeft, dirty,
                   topRevision, response>>

\* Line 130: context->Reply().
HandlerReplies(h) ==
    /\ request[h].pc = "armed"
    /\ request' = [request EXCEPT ![h].pc = "done"]
    /\ UNCHANGED <<slotManager, executor, now, gm, tick, net, hbLeft, peerLeft, dirty,
                   topRevision, response>>

NextHandlers ==
    \/ \E h \in HandlerIds, k \in ServerKeys, info \in HbInfos,
          leaseTimeout \in LeaseTimeouts : HandlerStarts(h, k, info, leaseTimeout)
    \/ \E h \in HandlerIds : HandlerResolves(h)
    \/ \E h \in HandlerIds : HandlerUpdates(h)
    \/ \E h \in HandlerIds : HandlerInserts(h)
    \/ \E h \in HandlerIds : HandlerArms(h)
    \/ \E h \in HandlerIds : HandlerReplies(h)
    \/ AdvanceTime

HandlersSpec == InitHandlers /\ [][NextHandlers]_vars

\* ------------------------------------------------------------------------
\* The ListMembers handler statement by statement, next to the Heartbeat
\* handler: handlers of the service run in parallel, so a heartbeat can
\* come between any two reads ListMembers makes of a member.
\*   response : the handler's position, the members it still has to emit
\*              and the protoMembers it has added
\*   request  : history, what the heartbeats made of the member, by revision
\* ------------------------------------------------------------------------

IdleList ==
    [pc |-> "idle", attributeKeys |-> {}, members |-> <<>>, id |-> "m1",
     priority |-> 0, built |-> <<>>]

InitSnapshot ==
    /\ now = StartTime
    /\ gm = [s \in ServerAddresses |-> EmptyManager]
    /\ tick = [s \in ServerAddresses |-> IdleTick]
    /\ executor = [s \in ServerAddresses |-> IdleExecutor]
    /\ slotManager = NoSlotManager
    /\ net = {}
    /\ hbLeft = MaxHomeHeartbeats
    /\ peerLeft = 0
    /\ dirty = [s \in ServerAddresses |-> {}]
    /\ topRevision = [s \in ServerAddresses |-> [k \in Keys |-> 0]]
    /\ request = <<>>
    /\ response = IdleList

\* Group.ListMembers(limit) as the handler gets it: pointers to the members.
ListMemberPtrs(st, g, limit, t) ==
    LET members == ListMembers(st, g, limit, t)
    IN [i \in 1..Len(members) |-> st.groups[g][members[i].id]]

\* Lines 69-77: GetGroupOrThrow and group->ListMembers.  A throw ends the
\* call and leaves no response.
ListBegins(s, groupId, options) ==
    /\ response.pc = "idle"
    /\ GroupFound(gm[s], groupId, now)
    /\ LET members == ListMemberPtrs(gm[s], groupId, options.limit, now)
       IN response' = [IdleList EXCEPT
                          !.pc = IF members = <<>> THEN "reply" ELSE "priority",
                          !.attributeKeys = options.attributeKeys,
                          !.members = members]
    /\ UNCHANGED <<slotManager, executor, now, gm, tick, net, hbLeft, peerLeft, dirty,
                   topRevision, request>>

\* Lines 79-81: add_members, set_id, set_priority(member->GetPriority()).
ListReadsPriority(s) ==
    /\ response.pc = "priority"
    /\ LET member == gm[s].objs[Head(response.members)]
       IN response' = [response EXCEPT !.pc = "writer", !.id = member.id,
                                       !.priority = member.priority]
    /\ UNCHANGED <<slotManager, executor, now, gm, tick, net, hbLeft, peerLeft, dirty,
                   topRevision, request>>

\* Lines 83-92: under member->CreateWriter(), the attributes of the keys
\* asked for.
ListReadsAttributes(s) ==
    /\ response.pc = "writer"
    /\ LET member == gm[s].objs[Head(response.members)]
           rest == Tail(response.members)
       IN response' = [response EXCEPT
              !.pc = IF rest = <<>> THEN "reply" ELSE "priority",
              !.members = rest,
              !.built = Append(@, [id |-> response.id,
                                   priority |-> response.priority,
                                   attributes |-> ProjectAttributes(member,
                                       response.attributeKeys)])]
    /\ UNCHANGED <<slotManager, executor, now, gm, tick, net, hbLeft, peerLeft, dirty,
                   topRevision, request>>

\* Lines 95-96: context->Reply(); response.built is what the client gets.
ListReplies(s) ==
    /\ response.pc = "reply"
    /\ response' = [response EXCEPT !.pc = "idle"]
    /\ UNCHANGED <<slotManager, executor, now, gm, tick, net, hbLeft, peerLeft, dirty,
                   topRevision, request>>

NextSnapshot ==
    \/ \E k \in HbKeys, info \in HbInfos, leaseTimeout \in LeaseTimeouts :
          HeartbeatAtHome(Self, k, info, leaseTimeout)
    \/ \E g \in GroupIds, options \in EndpointOptions :
          ListBegins(Self, g, options)
    \/ ListReadsPriority(Self)
    \/ ListReadsAttributes(Self)
    \/ ListReplies(Self)
    \/ AdvanceTime

SnapshotSpec == InitSnapshot /\ [][NextSnapshot]_vars

\* ------------------------------------------------------------------------
\* Two servers whose gossip goes on: no request is lost, no lease expires,
\* and the executor of each server keeps calling SendGossip, which runs to
\* its end; the clients heartbeat at either server, MaxHeartbeats times in
\* all.
\* ------------------------------------------------------------------------

\* Some step of the gossip: a tick begins, sends its next request, or a
\* request is handled.
Gossips ==
    \/ \E msg \in net : ReceiveGossip(msg)
    \/ \E s \in ServerAddresses : SendGossipStart(s)
    \/ \E s \in ServerAddresses, address \in ServerAddresses :
          SendGossipToPeer(s, address)

NextQuiescence ==
    \/ \E s \in ServerAddresses, k \in HbKeys, info \in HbInfos,
          leaseTimeout \in LeaseTimeouts : Heartbeat(s, k, info, leaseTimeout)
    \/ \E msg \in net : ReceiveGossip(msg)
    \/ \E s \in ServerAddresses : SendGossipStart(s)
    \/ \E s \in ServerAddresses, address \in ServerAddresses :
          SendGossipToPeer(s, address)
    \/ AdvanceTime

QuiescenceSpec == Init /\ [][NextQuiescence]_vars /\ WF_vars(Gossips)

\* ------------------------------------------------------------------------
\* TSlotManager of an exec node: the pool of user slots and the accounting
\* of the idle CPU policy.  AcquireSlot and the release callbacks run on the
\* job thread; a slot guard may be destroyed on any thread, which queues
\* the release on the job invoker.  NUMA scheduling is off
\* (NumaNodeStates_ empty).
\*   slotManager.guards  : the live TSlotGuards, in the order acquired
\*   slotManager.invoked : the callbacks of ReleaseSlot on the job invoker
\*   slotManager.aborted : which YT_VERIFY ended the process, if any
\*   slotManager.acquires, .result : history, the calls of AcquireSlot so
\*                         far and how the last one ended
\* ------------------------------------------------------------------------

\* ResourceLimits->UserSlots.
SlotCount == 2

\* Calls of AcquireSlot explored.
MaxAcquires == 4

\* Significant bits of a double in the model (53 in the build); CPU amounts
\* are counted in units small enough to make them integers.
MantissaBits == 3

RECURSIVE Pow2(_)
Pow2(n) == IF n = 0 THEN 1 ELSE 2 * Pow2(n - 1)

Abs(x) == IF x < 0 THEN -x ELSE x

\* The distance between neighbouring doubles at magnitude x.
RECURSIVE Ulp(_, _)
Ulp(x, q) == IF x < Pow2(MantissaBits) * q THEN q ELSE Ulp(x, 2 * q)

\* The double nearest to v, ties to the even mantissa.
RoundToDouble(v) ==
    LET q == Ulp(Abs(v), 1)
        r == Abs(v) % q
        down == Abs(v) - r
        nearest == IF 2 * r < q THEN down
                   ELSE IF 2 * r > q THEN down + q
                   ELSE IF (down \div q) % 2 = 0 THEN down ELSE down + q
    IN IF v < 0 THEN -nearest ELSE nearest

DoubleAdd(a, b) == RoundToDouble(a + b)

DoubleSub(a, b) == RoundToDouble(a - b)

\* cpuRequest.cpu() of the requests explored: two doubles whose sum is
\* not a double.
CpuAmounts == {Pow2(MantissaBits - 1), Pow2(MantissaBits - 1) + 1}

CpuRequests == [cpu : CpuAmounts, allow_cpu_idle_policy : BOOLEAN]

\* JobEnvironment_->GetCpuLimit(ESlotType::Idle).
IdleCpuLimit == Pow2(MantissaBits) + 2

InitSlots ==
    /\ now = StartTime
    /\ gm = [s \in ServerAddresses |-> EmptyManager]
    /\ tick = [s \in ServerAddresses |-> IdleTick]
    /\ executor = [s \in ServerAddresses |-> IdleExecutor]
    /\ net = {}
    /\ dirty = [s \in ServerAddresses |-> {}]
    /\ topRevision = [s \in ServerAddresses |-> [k \in Keys |-> 0]]
    /\ request = NoRequest
    /\ response = NoResponse
    /\ hbLeft = 0
    /\ peerLeft = 0
    /\ slotManager = [NoSlotManager EXCEPT !.SlotCount_ = SlotCount]

Running == slotManager.initialized /\ slotManager.aborted = "no"

\* Initialize: every slot index is free.
Initialize ==
    /\ ~slotManager.initialized
    /\ slotManager' = [slotManager EXCEPT
                          !.FreeSlots_ = 0..(slotManager.SlotCount_ - 1),
                          !.initialized = TRUE]
    /\ UNCHANGED <<now, gm, tick, net, hbLeft, peerLeft, dirty, topRevision,
                   request, response, executor>>

GetUsedSlotCount(sm) == sm.SlotCount_ - Cardinality(sm.FreeSlots_)

\* Variant: the slot index stays in FreeSlots_.
DoAcquireSlotKeepingFree(sm) ==
    LET slotIndex == CHOOSE i \in sm.FreeSlots_ : \A j \in sm.FreeSlots_ : i <= j
    IN [slotIndex |-> slotIndex, sm |-> sm]

\* DoAcquireSlot: the first of FreeSlots_ (a std::set, so the lowest index)
\* leaves the set.
DoAcquireSlot(sm) ==
    LET slotIndex == CHOOSE i \in sm.FreeSlots_ : \A j \in sm.FreeSlots_ : i <= j
    IN [slotIndex |-> slotIndex,
        sm |-> [sm EXCEPT !.FreeSlots_ = @ \ {slotIndex}]]

\* AcquireSlot(diskRequest, cpuRequest) on the job thread.  feasible: some
\* alive location has the disk space and the medium; without one the call
\* throws SlotNotFound.  Otherwise the slot is typed, an Idle one is counted,
\* and CreateSlot makes the slot, whose guard takes the index from
\* DoAcquireSlot; YT_VERIFY(slotIt != FreeSlots_.end()) ends the process
\* when no index is free.
AcquireSlot(cpuRequest, feasible) ==
    /\ Running
    /\ slotManager.acquires < MaxAcquires
    /\ LET sm == [slotManager EXCEPT !.acquires = @ + 1]
           idle == /\ cpuRequest.allow_cpu_idle_policy
                   /\ DoubleAdd(sm.IdlePolicyRequestedCpu_, cpuRequest.cpu)
                         <= IdleCpuLimit
           counted == IF idle
                      THEN [sm EXCEPT !.IdlePolicyRequestedCpu_ =
                                          DoubleAdd(@, cpuRequest.cpu),
                                      !.UsedIdleSlotCount_ = @ + 1]
                      ELSE sm
       IN slotManager' =
              IF ~feasible
              THEN [sm EXCEPT !.result = "SlotNotFound"]
              ELSE IF counted.FreeSlots_ = {}
              THEN [counted EXCEPT !.aborted = "DoAcquireSlot",
                                   !.result = "aborted"]
              ELSE LET got == DoAcquireSlot(counted)
                   IN [got.sm EXCEPT
                          !.guards = Append(@,
                              [SlotIndex_ |-> got.slotIndex,
                               SlotType_ |-> IF idle THEN "Idle" ELSE "Common",
                               RequestedCpu_ |-> cpuRequest.cpu]),
                          !.result = "slot"]
    /\ UNCHANGED <<now, gm, tick, net, hbLeft, peerLeft, dirty, topRevision,
                   request, response, executor>>

\* seq without its i-th element.
RemoveAt(seq, i) == SubSeq(seq, 1, i - 1) \o SubSeq(seq, i + 1, Len(seq))

\* ~TSlotGuard, on any thread: ReleaseSlot queues the release on the job
\* invoker.
GuardDestroyed(i) ==
    /\ Running
    /\ i \in 1..Len(slotManager.guards)
    /\ slotManager' = [slotManager EXCEPT
                          !.guards = RemoveAt(@, i),
                          !.invoked = Append(@, slotManager.guards[i])]
    /\ UNCHANGED <<now, gm, tick, net, hbLeft, peerLeft, dirty, topRevision,
                   request, response, executor>>

\* The callback of ReleaseSlot runs on the job thread.
ReleaseProcessed ==
    /\ Running
    /\ slotManager.invoked # <<>>
    /\ LET released == Head(slotManager.invoked)
           sm == [slotManager EXCEPT !.invoked = Tail(@)]
       IN slotManager' =
              IF released.SlotIndex_ \in sm.FreeSlots_
              THEN [sm EXCEPT !.aborted = "ReleaseSlot"]
              ELSE [sm EXCEPT
                       !.FreeSlots_ = @ \cup {released.SlotIndex_},
                       !.UsedIdleSlotCount_ =
                           IF released.SlotType_ = "Idle" THEN @ - 1 ELSE @,
                       !.IdlePolicyRequestedCpu_ =
                           IF released.SlotType_ = "Idle"
                           THEN DoubleSub(@, released.RequestedCpu_) ELSE @,
                       !.result = "released"]
    /\ UNCHANGED <<now, gm, tick, net, hbLeft, peerLeft, dirty, topRevision,
                   request, response, executor>>

NextSlots ==
    \/ Initialize
    \/ \E cpuRequest \in CpuRequests, feasible \in BOOLEAN :
          AcquireSlot(cpuRequest, feasible)
    \/ \E i \in 1..SlotCount : GuardDestroyed(i)
    \/ ReleaseProcessed

SlotSpec == InitSlots /\ [][NextSlots]_vars

\* ------------------------------------------------------------------------
\* TSlotManager: alerts (Disable, ResetAlert, OnJobFinished, IsEnabled)
\* ------------------------------------------------------------------------

\* Config_->MaxConsecutiveJobAborts and Config_->MaxConsecutiveGpuJobFailures.
MaxConsecutiveJobAborts == 1

MaxConsecutiveGpuJobFailures == 1

\* The number of jobs that finish in a behaviour.
MaxFinished == 4

\* ESlotManagerAlertType.
AlertTypes ==
    {"GenericPersistentError", "TooManyConsecutiveJobAbortions",
     "TooManyConsecutiveGpuJobFailures", "JobProxyUnavailable",
     "GpuCheckFailed"}

\* TError: a message and the inner error attached with <<.  OK is TError().
TError(message, inner) == [message |-> message, inner |-> inner]

OK == TError("OK", "none")

IsOK(error) == error = OK

\* The errors handed to the slot manager by its callers.
Errors == {TError(message, "none") : message \in {"e1", "e2"}}

\* The jobs that finish: the type of the job id, the state, IsGpuRequested.
Jobs ==
    [type : {"SchedulerJob", "MasterJob"},
     state : {"Aborted", "Failed", "Completed"},
     gpu : BOOLEAN]

\* The alert part of a slot manager after construction.  delayed holds the
\* callbacks submitted to TDelayedExecutor and not yet run; finished is the
\* history of the jobs finished ("aborted": an aborted scheduler job,
\* "other": any other job) and of the runs of
\* ResetConsecutiveAbortedJobCount ("reset"); call is the last call made,
\* with its argument, and result what it returned.
NoAlerts ==
    [Alerts_ |-> [alertType \in AlertTypes |-> OK],
     ConsecutiveAbortedSchedulerJobCount_ |-> 0,
     ConsecutiveFailedGpuJobCount_ |-> 0,
     JobProxyReady_ |-> FALSE,
     delayed |-> <<>>,
     finished |-> <<>>,
     call |-> <<"none", "">>,
     result |-> FALSE]

InitAlerts ==
    /\ now = StartTime
    /\ gm = [s \in ServerAddresses |-> EmptyManager]
    /\ tick = [s \in ServerAddresses |-> IdleTick]
    /\ executor = [s \in ServerAddresses |-> IdleExecutor]
    /\ net = {}
    /\ dirty = [s \in ServerAddresses |-> {}]
    /\ topRevision = [s \in ServerAddresses |-> [k \in Keys |-> 0]]
    /\ request = NoRequest
    /\ response = NoResponse
    /\ hbLeft = 0
    /\ peerLeft = 0
    /\ slotManager = NoAlerts

\* Variant: Disable without the early return.
DisableOverwriting(sm, error) ==
    [sm EXCEPT !.Alerts_["GenericPersistentError"] =
                   TError("Scheduler jobs disabled", error.message)]

\* Disable(error), under SpinLock_.
Disable(sm, error) ==
    IF ~IsOK(sm.Alerts_["GenericPersistentError"])
    THEN sm
    ELSE [sm EXCEPT !.Alerts_["GenericPersistentError"] =
                        TError("Scheduler jobs disabled", error.message)]

HasFatalAlert(sm) == ~IsOK(sm.Alerts_["GenericPersistentError"])

HasSlotDisablingAlert(sm, disableJobsOnGpuCheckFailure) ==
    \/ ~IsOK(sm.Alerts_["GenericPersistentError"])
    \/ ~IsOK(sm.Alerts_["TooManyConsecutiveJobAbortions"])
    \/ ~IsOK(sm.Alerts_["TooManyConsecutiveGpuJobFailures"])
    \/ ~IsOK(sm.Alerts_["JobProxyUnavailable"])
    \/ (disableJobsOnGpuCheckFailure /\ ~IsOK(sm.Alerts_["GpuCheckFailed"]))

\* IsEnabled.  ready stands for Initialized_ && SlotCount_ > 0 &&
\* !AliveLocations_.empty() && JobEnvironment_->IsEnabled().
IsEnabled(sm, ready, disableJobsOnGpuCheckFailure) ==
    /\ sm.JobProxyReady_
    /\ ready
    /\ ~HasSlotDisablingAlert(sm, disableJobsOnGpuCheckFailure)

\* Variant: the alert is raised as soon as the count reaches the maximum.
OnJobFinishedAtMaximum(sm, job) ==
    LET aborted == job.type = "SchedulerJob" /\ job.state = "Aborted"
        count == IF aborted THEN sm.ConsecutiveAbortedSchedulerJobCount_ + 1
                 ELSE 0
        raise == /\ count >= MaxConsecutiveJobAborts
                 /\ IsOK(sm.Alerts_["TooManyConsecutiveJobAbortions"])
        gpuCount == IF ~job.gpu THEN sm.ConsecutiveFailedGpuJobCount_
                    ELSE IF job.state = "Failed"
                         THEN sm.ConsecutiveFailedGpuJobCount_ + 1
                         ELSE 0
        gpuRaise == /\ job.gpu
                    /\ gpuCount > MaxConsecutiveGpuJobFailures
                    /\ IsOK(sm.Alerts_["TooManyConsecutiveGpuJobFailures"])
        submitted ==
            (IF raise THEN <<"ResetConsecutiveAbortedJobCount">> ELSE <<>>)
            \o (IF gpuRaise THEN <<"ResetConsecutiveFailedGpuJobCount">>
                ELSE <<>>)
    IN [sm EXCEPT
           !.ConsecutiveAbortedSchedulerJobCount_ = count,
           !.ConsecutiveFailedGpuJobCount_ = gpuCount,
           !.Alerts_ =
               [alertType \in AlertTypes |->
                   IF alertType = "TooManyConsecutiveJobAbortions" /\ raise
                   THEN TError("Too many consecutive scheduler job abortions",
                               "none")
                   ELSE IF alertType = "TooManyConsecutiveGpuJobFailures"
                           /\ gpuRaise
                   THEN TError("Too many consecutive GPU job failures", "none")
                   ELSE sm.Alerts_[alertType]],
           !.delayed = @ \o submitted]

\* OnJobFinished(job), under SpinLock_: the scheduler job part and then the
\* GPU part.
OnJobFinished(sm, job) ==
    LET aborted == job.type = "SchedulerJob" /\ job.state = "Aborted"
        count == IF aborted THEN sm.ConsecutiveAbortedSchedulerJobCount_ + 1
                 ELSE 0
        raise == /\ count > MaxConsecutiveJobAborts
                 /\ IsOK(sm.Alerts_["TooManyConsecutiveJobAbortions"])
        gpuCount == IF ~job.gpu THEN sm.ConsecutiveFailedGpuJobCount_
                    ELSE IF job.state = "Failed"
                         THEN sm.ConsecutiveFailedGpuJobCount_ + 1
                         ELSE 0
        gpuRaise == /\ job.gpu
                    /\ gpuCount > MaxConsecutiveGpuJobFailures
                    /\ IsOK(sm.Alerts_["TooManyConsecutiveGpuJobFailures"])
        submitted ==
            (IF raise THEN <<"ResetConsecutiveAbortedJobCount">> ELSE <<>>)
            \o (IF gpuRaise THEN <<"ResetConsecutiveFailedGpuJobCount">>
                ELSE <<>>)
    IN [sm EXCEPT
           !.ConsecutiveAbortedSchedulerJobCount_ = count,
           !.ConsecutiveFailedGpuJobCount_ = gpuCount,
           !.Alerts_ =
               [alertType \in AlertTypes |->
                   IF alertType = "TooManyConsecutiveJobAbortions" /\ raise
                   THEN TError("Too many consecutive scheduler job abortions",
                               "none")
                   ELSE IF alertType = "TooManyConsecutiveGpuJobFailures"
                           /\ gpuRaise
                   THEN TError("Too many consecutive GPU job failures", "none")
                   ELSE sm.Alerts_[alertType]],
           !.delayed = @ \o submitted]

AlertsFrame ==
    UNCHANGED <<now, gm, tick, net, hbLeft, peerLeft, dirty, topRevision,
                request, response, executor>>

\* A caller disables the slot manager.
Disables(error) ==
    /\ slotManager' = [Disable(slotManager, error) EXCEPT
                          !.call = <<"Disable", error.message>>]
    /\ AlertsFrame

\* ResetAlert(alertType).
AlertReset(alertType) ==
    /\ slotManager' = [slotManager EXCEPT !.Alerts_[alertType] = OK,
                                          !.call = <<"ResetAlert", alertType>>]
    /\ AlertsFrame

\* OnGpuCheckCommandFailed(error).
GpuCheckCommandFailed(error) ==
    /\ slotManager' = [slotManager EXCEPT !.Alerts_["GpuCheckFailed"] = error,
                                          !.call = <<"OnGpuCheckCommandFailed", "">>]
    /\ AlertsFrame

\* OnJobProxyBuildInfoUpdated(error); alerting stands for
\* !SkipJobProxyUnavailableAlert && IsExecNode().
JobProxyBuildInfoUpdated(error, alerting) ==
    /\ slotManager' =
           [slotManager EXCEPT
               !.Alerts_["JobProxyUnavailable"] = IF alerting THEN error ELSE @,
               !.JobProxyReady_ = TRUE,
               !.call = <<"OnJobProxyBuildInfoUpdated", "">>]
    /\ AlertsFrame

\* A job finishes.
JobFinished(job) ==
    /\ Len(SelectSeq(slotManager.finished, LAMBDA e : e # "reset"))
          < MaxFinished
    /\ slotManager' =
           [OnJobFinished(slotManager, job) EXCEPT
               !.finished =
                   Append(@, IF job.type = "SchedulerJob"
                                /\ job.state = "Aborted"
                             THEN "aborted" ELSE "other"),
               !.call = <<"OnJobFinished", "">>]
    /\ AlertsFrame

\* The delayed executor runs the i-th submitted callback:
\* ResetConsecutiveAbortedJobCount or ResetConsecutiveFailedGpuJobCount.
DelayedRuns(i) ==
    /\ i \in 1..Len(slotManager.delayed)
    /\ LET callback == slotManager.delayed[i]
           rest == [j \in 1..(Len(slotManager.delayed) - 1) |->
                       IF j < i THEN slotManager.delayed[j]
                       ELSE slotManager.delayed[j + 1]]
       IN slotManager' =
              IF callback = "ResetConsecutiveAbortedJobCount"
              THEN [slotManager EXCEPT
                       !.Alerts_["TooManyConsecutiveJobAbortions"] = OK,
                       !.ConsecutiveAbortedSchedulerJobCount_ = 0,
                       !.delayed = rest,
                       !.finished = Append(@, "reset"),
                       !.call = <<callback, "">>]
              ELSE [slotManager EXCEPT
                       !.Alerts_["TooManyConsecutiveGpuJobFailures"] = OK,
                       !.ConsecutiveFailedGpuJobCount_ = 0,
                       !.delayed = rest,
                       !.call = <<callback, "">>]
    /\ AlertsFrame

\* HasFatalAlert() is called.
FatalAlertAsked ==
    /\ slotManager' = [slotManager EXCEPT !.call = <<"HasFatalAlert", "">>,
                                          !.result = HasFatalAlert(slotManager)]
    /\ AlertsFrame

\* IsEnabled() is called on the job thread.
EnabledAsked(ready, disableJobsOnGpuCheckFailure) ==
    /\ slotManager' =
           [slotManager EXCEPT
               !.call = <<"IsEnabled", "">>,
               !.result = IsEnabled(slotManager, ready,
                                    disableJobsOnGpuCheckFailure)]
    /\ AlertsFrame

NextAlerts ==
    \/ \E error \in Errors : Disables(error)
    \/ \E alertType \in AlertTypes : AlertReset(alertType)
    \/ \E error \in Errors : GpuCheckCommandFailed(error)
    \/ \E error \in Errors \cup {OK}, alerting \in BOOLEAN :
          JobProxyBuildInfoUpdated(error, alerting)
    \/ \E job \in Jobs : JobFinished(job)
    \/ \E i \in 1..(2 * MaxFinished) : DelayedRuns(i)
    \/ FatalAlertAsked
    \/ \E ready \in BOOLEAN, disableJobsOnGpuCheckFailure \in BOOLEAN :
          EnabledAsked(ready, disableJobsOnGpuCheckFailure)

AlertsSpec == InitAlerts /\ [][NextAlerts]_vars

\* ------------------------------------------------------------------------
\* Properties
\* ------------------------------------------------------------------------

\* The member of key k on server s, whatever its lease.
Stored(s, k) == MemberOf(gm[s], k[1], k[2])

Holds(s, k) == HasMember(gm[s], k[1], k[2])

\* C1: on every server and for every (groupId, memberId), the revision
\* stored for the member never decreases, whatever sequence of heartbeats,
\* gossip requests, lease expiries and gossip ticks the server goes through,
\* a removal by expiry followed by a new creation included.  topRevision is
\* the highest revision the server has stored so far, so a stored revision
\* below it is a decrease.
RevisionNeverDecreases ==
    \A s \in ServerAddresses, k \in Keys :
        Holds(s, k) => Stored(s, k).revision >= topRevision[s][k]

\* C2: every member of a ListMembers response made at time now has a lease
\* deadline after now; a member whose deadline has passed is not in the
\* response even while the group still holds it.
ListedMembersAreLive ==
    response.found =>
        \A i \in 1..Len(response.members) :
            LET k == <<request.groupId, response.members[i].id>>
            IN Holds(Self, k) /\ Stored(Self, k).leaseDeadline > now

\* A response with a member, made while the group holds another member
\* exactly at its deadline, which the response leaves out.
ListedWhileExpiredHeld ==
    /\ response.found
    /\ Len(response.members) >= 1
    /\ \E m \in MemberIds :
          /\ Holds(Self, <<request.groupId, m>>)
          /\ Stored(Self, <<request.groupId, m>>).leaseDeadline = now
          /\ \A i \in 1..Len(response.members) : response.members[i].id # m

\* The (priority, id) order of two response entries or members.
Precedes(a, b) ==
    \/ a.priority < b.priority
    \/ a.priority = b.priority /\ IdRank[a.id] < IdRank[b.id]

\* C3: a ListMembers(limit = N) response has at most N entries, is sorted
\* ascending by (priority, id), and is the first N of the live members in
\* that order: a live member left out ranks after every returned one, and
\* is left out only when the response is full.
ListIsFirstNByPriority ==
    response.found =>
        LET out == response.members
            g == request.groupId
            live == {m \in DOMAIN gm[Self].groups[g] :
                        Stored(Self, <<g, m>>).leaseDeadline > now}
            returned == {out[i].id : i \in 1..Len(out)}
        IN /\ Len(out) <= request.limit
           /\ \A i, j \in 1..Len(out) : i < j => Precedes(out[i], out[j])
           /\ \A i \in 1..Len(out) :
                 /\ out[i].id \in live
                 /\ out[i].priority = Stored(Self, <<g, out[i].id>>).priority
           /\ \A m \in live \ returned :
                 /\ Len(out) = request.limit
                 /\ \A i \in 1..Len(out) : Precedes(out[i], Stored(Self, <<g, m>>))

\* A full response that leaves a live member out and holds two members of
\* equal priority.
ListTruncatedWithTie ==
    /\ response.found
    /\ request.limit = 2
    /\ Len(response.members) = 2
    /\ response.members[1].priority = response.members[2].priority
    /\ Cardinality({m \in DOMAIN gm[Self].groups[request.groupId] :
           Stored(Self, <<request.groupId, m>>).leaseDeadline > now}) = 3

\* C4: handling a gossip request a second time changes nothing: the
\* revision, priority, attributes and lease deadline of every member and
\* the membership of every group are as after the first time.
GossipIsIdempotent ==
    [][\A msg \in net :
          ReceiveGossip(msg) =>
              LET once == gm'[msg.to]
                  twice == ProcessGossipHandler(once, msg.members)
              IN /\ \A k \in Keys : View(twice, k) = View(once, k)
                 /\ \A k \in Keys : HasMember(twice, k[1], k[2])
                                       <=> HasMember(once, k[1], k[2])
                 /\ DOMAIN twice.groups = DOMAIN once.groups]_vars

\* A request has been handled and its entry adopted at the highest revision.
GossipAdopted ==
    /\ net = {}
    /\ dirty[Self] # {}
    /\ \E k \in ServerKeys :
          Holds(Self, k) /\ Stored(Self, k).revision = MaxGossipRevision

\* The key of the member object o of server s.
KeyOf(st, o) == <<st.objs[o].groupId, st.objs[o].id>>

Quiescent ==
    /\ hbLeft = 0
    /\ net = {}
    /\ \A s \in ServerAddresses :
          tick[s].pc = "idle" /\ gm[s].modified = EmptyMap

Unexpired(s, k) == Holds(s, k) /\ Stored(s, k).leaseDeadline > now

\* C6: with no request lost and no heartbeat to come, once the gossip ticks
\* have nothing left to send the two servers hold the same revision,
\* priority, attributes and lease deadline for every member that both hold
\* unexpired.
ReplicasConverge ==
    Quiescent =>
        \A k \in Keys :
            (\A s \in ServerAddresses : Unexpired(s, k)) =>
                \A s, t \in ServerAddresses : View(gm[s], k) = View(gm[t], k)

\* C7: a gossip entry with a revision above the local one makes the local
\* revision and priority the entry's; an entry with an equal or lower
\* revision leaves revision, priority, attributes and lease deadline as they
\* were; and no other member changes.
RevisionDecidesAdoption ==
    [][\A msg \in net :
          ReceiveGossip(msg) =>
              LET e == msg.members[1]
                  k == <<e.groupId, e.id>>
                  before == View(gm[msg.to], k)
                  after == View(gm'[msg.to], k)
              IN /\ e.revision > before.revision =>
                       after.revision = e.revision /\ after.priority = e.priority
                 /\ e.revision <= before.revision => after = before
                 /\ \A other \in Keys \ {k} :
                       View(gm'[msg.to], other) = View(gm[msg.to], other)]_vars

\* An entry was turned down by a member at a revision above it: the member
\* is at a revision only heartbeats gave it, and the change set is empty.
StaleEntryIgnored ==
    /\ net = {}
    /\ dirty[Self] = {}
    /\ \E k \in HbKeys :
          /\ Holds(Self, k)
          /\ Stored(Self, k).revision = 2
          /\ gm[Self].timer[k] = MaxTime + 1

\* C8: a heartbeat for a member makes its revision exactly one above the
\* revision it had (0 for a member the server did not hold) and its lease
\* deadline now + leaseTimeout.
HeartbeatBumpsRevision ==
    [][\A k \in ServerKeys, info \in HbInfos, leaseTimeout \in LeaseTimeouts :
          Heartbeat(Self, k, info, leaseTimeout) =>
              /\ HasMember(gm'[Self], k[1], k[2])
              /\ MemberOf(gm'[Self], k[1], k[2]).revision
                    = StoredRevision(gm[Self], k) + 1
              /\ MemberOf(gm'[Self], k[1], k[2]).leaseDeadline
                    = now + leaseTimeout]_vars

\* A member two heartbeats brought to revision 2, the second with a lease
\* other than MaxLease.
HeartbeatTwice ==
    /\ peerLeft = MaxPeerGossip
    /\ \E k \in ServerKeys :
          /\ Holds(Self, k)
          /\ Stored(Self, k).revision = 2
          /\ Stored(Self, k).leaseDeadline < now + MaxLease

\* The entry of request msg for the drained member object o carries the
\* object's revision, priority and lease deadline, and its attributes
\* exactly when attach says so.
CarriesMember(msg, o, attach) ==
    \E i \in 1..Len(msg.members) :
        LET e == msg.members[i]
            member == gm[Self].objs[o]
        IN /\ e.groupId = member.groupId /\ e.id = member.id
           /\ e.revision = member.revision
           /\ e.priority = member.priority
           /\ e.leaseDeadline = member.leaseDeadline
           /\ e.hasAttributes <=> attach
           /\ e.hasAttributes => e.attributes = member.attributes

\* The request SendGossipToPeer(Self, address) adds holds one entry for each
\* drained member.
RequestSent(address, msg) ==
    /\ msg.to = address
    /\ Len(msg.members) = Cardinality(tick[Self].members)

\* C9, as the code has it: the payload of a tick carries a drained member's
\* attributes when, and only when, tickStart - LastGossipAttributesPushedAt
\* is greater than AttributesUpdatePeriod, so not when the last push was
\* exactly AttributesUpdatePeriod ago; revision, priority and lease deadline
\* are carried regardless.
AttributesSentAfterPeriod ==
    [][\A address \in ServerAddresses :
          SendGossipToPeer(Self, address) =>
              \E msg \in net' :
                  /\ net' = net \cup {msg}
                  /\ RequestSent(address, msg)
                  /\ \A o \in tick[Self].members :
                        CarriesMember(msg, o,
                            tick[Self].gossipStartTime
                                - gm[Self].objs[o].lastGossipAttributesUpdateTime
                            > AttributesUpdatePeriod)]_vars

\* C9, as stated: the attributes are carried when, and only when,
\* tickStart - LastGossipAttributesPushedAt >= AttributesUpdatePeriod.
AttributesSentAtPeriod ==
    [][\A address \in ServerAddresses :
          SendGossipToPeer(Self, address) =>
              \E msg \in net' :
                  /\ net' = net \cup {msg}
                  /\ RequestSent(address, msg)
                  /\ \A o \in tick[Self].members :
                        CarriesMember(msg, o,
                            tick[Self].gossipStartTime
                                - gm[Self].objs[o].lastGossipAttributesUpdateTime
                            >= AttributesUpdatePeriod)]_vars

\* A tick that started exactly AttributesUpdatePeriod after the last push
\* of a member's attributes drained the member and left its attributes out.
WithheldAtPeriod ==
    \E o \in DOMAIN gm[Self].objs :
        /\ gm[Self].objs[o].withheldAt # 0
        /\ gm[Self].objs[o].withheldAt
              - gm[Self].objs[o].lastGossipAttributesUpdateTime
           = AttributesUpdatePeriod

RECURSIVE Flatten(_)
Flatten(batches) ==
    IF batches = <<>> THEN <<>>
    ELSE Head(batches) \o Flatten(Tail(batches))

\* C11: whatever the request and whatever GossipBatchSize >= 1, the
\* batches the handler applies, one after the other, are the request's
\* entries, each once and in the order received; no batch is empty or
\* longer than GossipBatchSize and all but the last hold exactly
\* GossipBatchSize entries; and the manager ends as after one ProcessGossip
\* call with the whole request.
BatchingIsEquivalent ==
    [][HandleGossip =>
          LET calls == response'.calls
              size == request.batchSize
          IN /\ Flatten(calls) = request.members
             /\ \A i \in 1..Len(calls) :
                   Len(calls[i]) >= 1 /\ Len(calls[i]) <= size
             /\ \A i \in 1..(Len(calls) - 1) : Len(calls[i]) = size
             /\ gm'[Self] = Collect(ProcessGossip(gm[Self], request.members),
                                    {})]_vars

\* A request of five entries handled in batches of two, two and one.
BatchesTwoTwoOne ==
    /\ response.done
    /\ request.batchSize = 2
    /\ Len(request.members) = 5
    /\ Len(response.calls) = 3
    /\ Len(response.calls[1]) = 2
    /\ Len(response.calls[2]) = 2
    /\ Len(response.calls[3]) = 1

\* C12: every entry of a ListMembers response carries the id and the
\* priority of a member of the group and exactly the attributes whose key
\* is both requested and present on that member, each with the member's
\* value: a requested key the member lacks is left out, the call still
\* succeeds, and no key outside the request's attributeKeys is emitted.
ResponseProjectsAttributes ==
    response.found =>
        \A i \in 1..Len(response.members) :
            LET entry == response.members[i]
                k == <<request.groupId, entry.id>>
            IN /\ Holds(Self, k)
               /\ entry.priority = Stored(Self, k).priority
               /\ DOMAIN entry.attributes =
                     request.attributeKeys \cap DOMAIN Stored(Self, k).attributes
               /\ \A key \in DOMAIN entry.attributes :
                     entry.attributes[key] = Stored(Self, k).attributes[key]

\* A response to a request for "rack" alone with a member that has the key
\* (and "host", which is not emitted) and a member that lacks it.
RackRequestedOfBoth ==
    /\ response.found
    /\ request.attributeKeys = {"rack"}
    /\ \E i, j \in 1..Len(response.members) :
          /\ DOMAIN response.members[i].attributes = {"rack"}
          /\ response.members[i].attributes["rack"] = "r1"
          /\ "host" \in DOMAIN Stored(Self, <<request.groupId,
                                   response.members[i].id>>).attributes
          /\ response.members[j].attributes = EmptyAttributes

\* The members of group g on Self whose lease deadline is after now.
LiveMembers(g) ==
    {m \in MemberIds : Holds(Self, <<g, m>>)
                          /\ Stored(Self, <<g, m>>).leaseDeadline > now}

\* C13: a ListMembers or GetGroupMeta call for a group the server does not
\* know, or knows with no live member, fails with GroupNotFound and its
\* response carries nothing; a call for a group with a live member
\* succeeds; so a GetGroupMeta response never says memberCount 0.
GroupNotFoundWhenEmpty ==
    request.method \in {"ListMembers", "GetGroupMeta"} =>
        /\ LiveMembers(request.groupId) = {} =>
              response = [found |-> FALSE, members |-> <<>>]
        /\ LiveMembers(request.groupId) # {} => response.found
        /\ (request.method = "GetGroupMeta" /\ response.found) =>
              /\ response.meta.memberCount >= 1
              /\ response.meta.memberCount =
                    Cardinality(LiveMembers(request.groupId))

\* GetGroupMeta has failed for a group the server still holds a member of,
\* every lease of the group having passed.
MetaOfExpiredGroupFails ==
    /\ request.method = "GetGroupMeta"
    /\ ~response.found
    /\ \E m \in MemberIds : Holds(Self, <<request.groupId, m>>)
    /\ LiveMembers(request.groupId) = {}

\* C14: a Heartbeat whose lease timeout is not positive, or is outside
\* [MinLease, MaxLease], is rejected with InvalidArgument and leaves the
\* registry (groups, members, revisions, change set, expiry timers) as it
\* was.
InvalidHeartbeatRejected ==
    [][(hbLeft' # hbLeft /\ request'.leaseTimeout \notin LeaseTimeouts) =>
          /\ response'.error = "InvalidArgument"
          /\ gm' = gm]_vars

\* The call being made is a query for the group of the heartbeat that was
\* the last call before it, made before that heartbeat's lease deadline.
QueryAfterHeartbeat ==
    /\ request.method = "Heartbeat"
    /\ now < request.at + request.leaseTimeout
    /\ request'.method \in {"ListMembers", "GetGroupMeta"}
    /\ request'.groupId = request.groupId

\* What a response with the given keys shows of the attributes attrs.
Shown(attrs, keys) == [key \in keys \cap DOMAIN attrs |-> attrs[key]]

Groups == DOMAIN gm[Self].groups

\* The call being made names group g in a heartbeat or in a gossip entry.
CallNames(g) ==
    \/ request'.method = "Heartbeat" /\ request'.groupId = g
        /\ hbLeft' # hbLeft
    \/ /\ request'.method = "ProcessGossip"
       /\ peerLeft' # peerLeft
       /\ \E i \in 1..Len(request'.members) : request'.members[i].groupId = g

\* The step is the processing of the expiry of the last member of g.
LastExpiryProcessed(g) ==
    /\ UNCHANGED <<hbLeft, peerLeft, request, response, now>>
    /\ \E m \in MemberIds :
          /\ DOMAIN gm[Self].groups[g] = {m}
          /\ gm[Self].timer[<<g, m>>] # NoTimer
          /\ gm[Self].timer[<<g, m>>] <= now
          /\ gm'[Self].timer[<<g, m>>] = NoTimer

\* C16: a group enters the registry only with a heartbeat or a gossip
\* entry that names it and leaves it only when the expiry of its last
\* member is processed, which removes it; the registry never holds a group
\* with zero members; and once the lease of every member of a group has
\* passed, ListMembers returns no members and GetGroupMeta fails with
\* GroupNotFound, before and after the expiries are processed.
GroupLivesWithItsMembers ==
    [][/\ \A g \in GroupIds :
             /\ (g \notin Groups /\ g \in Groups') => CallNames(g)
             /\ (g \in Groups /\ g \notin Groups') => LastExpiryProcessed(g)
             /\ (g \in Groups /\ LastExpiryProcessed(g)) => g \notin Groups'
             /\ g \in Groups' => DOMAIN gm'[Self].groups[g] # {}
       /\ (/\ request'.method \in {"ListMembers", "GetGroupMeta"}
           /\ UNCHANGED <<now, gm, hbLeft, peerLeft>>
           /\ LiveMembers(request'.groupId) = {}) =>
             response' = [found |-> FALSE, members |-> <<>>]]_vars

\* GetGroupMeta has failed for a group that had a member and is gone from
\* the registry, its last expiry processed.
MetaFailsAfterLastExpiry ==
    /\ request.method = "GetGroupMeta"
    /\ ~response.found
    /\ request.groupId \notin Groups
    /\ \E m \in MemberIds : topRevision[Self][<<request.groupId, m>>] >= 1

\* The step leaves the member k of Self, its presence and its expiry
\* timer as they are.
MemberUntouched(k) ==
    /\ Holds(Self, k)' = Holds(Self, k)
    /\ View(gm'[Self], k) = View(gm[Self], k)
    /\ gm'[Self].timer[k] = gm[Self].timer[k]

\* The step writes to group g: it is a heartbeat for g, a gossip request
\* with an entry for g, or the firing of the timer of a member of g.
Writes(g) ==
    \/ hbLeft' # hbLeft /\ request'.groupId = g
    \/ /\ peerLeft' # peerLeft
       /\ \E i \in 1..Len(request'.members) : request'.members[i].groupId = g
    \/ /\ UNCHANGED <<hbLeft, peerLeft>>
       /\ \E m \in MemberIds :
             /\ gm[Self].timer[<<g, m>>] # NoTimer
             /\ gm[Self].timer[<<g, m>>] <= now
             /\ gm'[Self].timer[<<g, m>>] = NoTimer

\* C17: a heartbeat, a gossip entry or an expiry for a member of one group
\* leaves every member of every other group as it was, a member with the
\* same id included; and every entry of a ListMembers(g) response is a
\* member of g, with the priority and the attributes it has in g.
GroupsAreIsolated ==
    [][/\ gm' # gm =>
             \A g \in GroupIds :
                Writes(g) \/ \A m \in MemberIds : MemberUntouched(<<g, m>>)
       /\ (request'.method = "ListMembers" /\ response'.found
            /\ UNCHANGED <<now, gm, hbLeft, peerLeft>>) =>
             \A i \in 1..Len(response'.members) :
                LET entry == response'.members[i]
                    k == <<request'.groupId, entry.id>>
                IN /\ Holds(Self, k)
                   /\ entry.priority = Stored(Self, k).priority
                   /\ entry.attributes = Shown(Stored(Self, k).attributes,
                                               request'.attributeKeys)]_vars

\* After the expiry of (g2, m1), ListMembers(g1) returns m1 of g1.
ListedAfterNamesakeExpired ==
    /\ request.method = "ListMembers"
    /\ request.groupId = "g1"
    /\ response.found
    /\ \E i \in 1..Len(response.members) : response.members[i].id = "m1"
    /\ topRevision[Self][<<"g2", "m1">>] >= 1
    /\ ~Holds(Self, <<"g2", "m1">>)

\* The step extracts the change set of Self.
Extracts ==
    gm[Self].modified # EmptyMap /\ gm'[Self].modified = EmptyMap

\* C18: on one server at most one SendGossip execution is in progress at
\* any time; the change set is extracted only on a beat of the executor
\* and only when no execution is in progress; a beat that falls into a
\* running execution is skipped: it starts nothing then, and nothing when
\* the execution returns.
TicksAreSerialized ==
    [][/\ executor'[Self].running <= 1
       /\ Extracts =>
             /\ executor[Self].running = 0
             /\ tick[Self].pc = "idle"
             /\ now >= executor[Self].due
             /\ executor'[Self].due = executor[Self].due + GossipPeriod
       /\ (executor[Self].running = 1
            /\ executor'[Self].due # executor[Self].due) =>
             /\ executor'[Self].running = 1
             /\ UNCHANGED <<gm, tick, net>>
       /\ executor'[Self].running < executor[Self].running =>
             /\ tick'[Self] = IdleTick
             /\ gm'[Self].modified = gm[Self].modified]_vars

\* An execution has overrun the period: it is still in progress, time has
\* passed since it began, and a beat has been skipped meanwhile.
BeatSkippedDuringTick ==
    /\ executor[Self].running = 1
    /\ executor[Self].skipped = 1
    /\ tick[Self].pc = "send"
    /\ now >= tick[Self].gossipStartTime + GossipPeriod

\* The entry carries what the member was at the revision the entry names.
EntryIsOfItsRevision(e) ==
    /\ e.revision \in 1..Len(request)
    /\ e.priority = request[e.revision].priority
    /\ e.leaseDeadline = request[e.revision].leaseDeadline
    /\ e.hasAttributes => e.attributes = request[e.revision].attributes

\* C19: every gossip entry a server sends for a member carries the
\* priority, the lease deadline and, when attached, the attributes the
\* member had at exactly the revision the entry carries, heartbeats running
\* next to the tick included; and a receiver never holds the member at a
\* revision with the priority or the attributes of another revision.
EntriesAreBundledWithRevision ==
    /\ \A msg \in net : \A i \in 1..Len(msg.members) :
          EntryIsOfItsRevision(msg.members[i])
    /\ \A s \in ServerAddresses \ {Self}, k \in HbKeys :
          Holds(s, k) =>
             /\ Stored(s, k).revision \in 1..Len(request)
             /\ Stored(s, k).priority = request[Stored(s, k).revision].priority
             /\ Stored(s, k).attributes =
                   request[Stored(s, k).revision].attributes

\* The position of o among the entries of a request built from members.
RECURSIVE PositionOf(_, _)
PositionOf(o, order) ==
    IF Head(order) = o THEN 1 ELSE 1 + PositionOf(o, Tail(order))

\* C20: the step in which SendGossip dispatches its last request and
\* returns sets the attribute push time to the start time of the tick on
\* every drained member whose entry in the request carries attributes,
\* and leaves it as it was on every drained member whose entry carries
\* none and on every member that was not drained; no other step changes a
\* push time.
PushTimesFollowDispatch ==
    [][LET pushTime(st, o) == st.objs[o].lastGossipAttributesUpdateTime
           kept == DOMAIN gm[Self].objs \cap DOMAIN gm'[Self].objs
       IN IF tick[Self].pc = "send" /\ tick'[Self].pc = "idle"
          THEN \E msg \in net' :
                  /\ net' = net \cup {msg}
                  /\ Len(msg.members) = Cardinality(tick[Self].members)
                  /\ \A o \in kept :
                        IF /\ o \in tick[Self].members
                           /\ msg.members[PositionOf(o,
                                  InOrder(tick[Self].members))].hasAttributes
                        THEN pushTime(gm'[Self], o) = tick[Self].gossipStartTime
                        ELSE pushTime(gm'[Self], o) = pushTime(gm[Self], o)
          ELSE \A o \in kept :
                  pushTime(gm'[Self], o) = pushTime(gm[Self], o)]_vars

\* No tick is running; a tick that began after the start has attached the
\* attributes of one member, which bears its start time, and a tick that
\* began at that time has withheld those of another member, which bears an
\* earlier push time.
TickStampedOneOfTwo ==
    /\ tick[Self].pc = "idle"
    /\ \E o1, o2 \in DOMAIN gm[Self].objs :
          /\ gm[Self].objs[o1].lastGossipAttributesUpdateTime > StartTime
          /\ gm[Self].objs[o2].withheldAt =
                gm[Self].objs[o1].lastGossipAttributesUpdateTime
          /\ gm[Self].objs[o2].lastGossipAttributesUpdateTime <
                gm[Self].objs[o2].withheldAt

\* Request msg holds exactly one entry for the drained member object o, and
\* that entry carries the object's group id, member id, revision, priority
\* and lease deadline.
HasOneEntryOf(msg, o) ==
    LET member == gm[Self].objs[o]
        entries == {i \in 1..Len(msg.members) :
                       /\ msg.members[i].groupId = member.groupId
                       /\ msg.members[i].id = member.id}
    IN /\ Cardinality(entries) = 1
       /\ \A i \in entries :
             /\ msg.members[i].revision = member.revision
             /\ msg.members[i].priority = member.priority
             /\ msg.members[i].leaseDeadline = member.leaseDeadline

\* C21: a tick drains the change set once, when it begins, and then sends
\* one request to each configured address other than SelfAddress and none
\* to SelfAddress; each request holds one entry for every drained member,
\* with its group id, member id, revision, priority and lease deadline.
GossipFansOut ==
    [][/\ SendGossipFanoutStart =>
            /\ tick'[Self].members = Range(gm[Self].modified)
            /\ tick'[Self].peers = FanoutAddresses \ {Self}
            /\ gm'[Self].modified = EmptyMap
            /\ net' = net
       /\ DOMAIN gm[Self].modified \ DOMAIN gm'[Self].modified # {} =>
            tick[Self].pc = "idle" /\ tick'[Self].pc = "send"
       /\ \A address \in FanoutAddresses :
            SendGossipFanout(address) =>
                /\ address # Self
                /\ address \in tick[Self].peers
                /\ tick'[Self] = IF tick[Self].peers = {address} THEN IdleTick
                                 ELSE [tick[Self] EXCEPT !.peers = @ \ {address}]
                /\ gm'[Self].modified = gm[Self].modified
                /\ \E msg \in net' :
                      /\ net' = net \cup {msg}
                      /\ msg.to = address
                      /\ Len(msg.members) = Cardinality(tick[Self].members)
                      /\ \A o \in tick[Self].members : HasOneEntryOf(msg, o)
       /\ net' \ net # {} => \E address \in FanoutAddresses :
                                 SendGossipFanout(address)
       /\ tick[Self].pc = "send" /\ tick'[Self].pc = "idle" =>
            \E address \in FanoutAddresses :
                tick[Self].peers = {address} /\ SendGossipFanout(address)]_vars

\* A tick over two drained members has ended, and its request to each of
\* the two peers is on its way.
BothPeersSentBothMembers ==
    /\ tick[Self].pc = "idle"
    /\ \E b \in net, c \in net :
          /\ b.to = "B" /\ c.to = "C"
          /\ Len(b.members) = 2 /\ Len(c.members) = 2

\* C22: a request that fails is only logged.  The failure takes the
\* request off the wire and sends nothing in its place, puts no member back
\* into the change set and leaves the tick where it was, so whatever
\* addresses the tick had still to go to it can still go to, the last of
\* them followed by the update of the push times.
FailedDispatchIsOnlyLogged ==
    /\ [][\A msg \in net :
             DispatchFailed(msg) =>
                 /\ net' = net \ {msg}
                 /\ gm' = gm
                 /\ tick' = tick]_vars
    /\ [](tick[Self].pc = "send" =>
             /\ tick[Self].peers # {}
             /\ \A address \in tick[Self].peers :
                   ENABLED SendGossipFanout(address))

\* The request of a tick to B failed while the tick had still to go to C;
\* the tick has ended since, the request to C is on its way, the push time
\* of a member is that of a tick and the change set is no larger than it
\* was at the failure.
TickWentOnAfterFailure ==
    /\ request.method = "failed"
    /\ request.to = "B"
    /\ request.pending = {"C"}
    /\ tick[Self].pc = "idle"
    /\ \E msg \in net : msg.to = "C"
    /\ \E o \in DOMAIN gm[Self].objs :
          gm[Self].objs[o].lastGossipAttributesUpdateTime >= StartTime
    /\ DOMAIN gm[Self].modified \subseteq request.modified

\* C23: an expiry timer removes a member only at or after the member's
\* current LeaseDeadline.
ExpiryFollowsCurrentLease ==
    [][\A s \in ServerAddresses, k \in Keys :
          /\ LeaseExpired(s, k)
          /\ HasMember(gm[s], k[1], k[2])
          /\ ~HasMember(gm'[s], k[1], k[2])
          => MemberOf(gm[s], k[1], k[2]).leaseDeadline <= now]_vars

\* C24: a gossip entry with a revision above the local one makes the
\* member's lease deadline the entry's, as it is; if the entry carries no
\* attributes the member's attributes stay as they were, and they change
\* only to the attributes an entry carries.
AdoptionKeepsAttributes ==
    [][\A msg \in net :
          ReceiveGossip(msg) =>
              LET e == msg.members[1]
                  k == <<e.groupId, e.id>>
                  before == View(gm[msg.to], k)
                  after == View(gm'[msg.to], k)
              IN e.revision > before.revision =>
                     /\ after.leaseDeadline = e.leaseDeadline
                     /\ ~e.hasAttributes => after.attributes = before.attributes
                     /\ after.attributes # before.attributes =>
                           e.hasAttributes /\ after.attributes = e.attributes]_vars

\* A member the heartbeats left with the attributes of priority 1 has
\* adopted an entry without attributes: it has the entry's revision,
\* priority and lease deadline, and its attributes still.
AdoptedWithoutAttributes ==
    /\ net = {}
    /\ \E k \in HbKeys :
          /\ Holds(Self, k)
          /\ Stored(Self, k).revision > 2
          /\ Stored(Self, k).priority = 2
          /\ Stored(Self, k).attributes = AttrX
          /\ Stored(Self, k).leaseDeadline = MaxTime + 1

\* The handlers whose heartbeat for member k has been applied.
AppliedTo(k) ==
    {h \in HandlerIds : request[h].key = k /\ request[h].pc \in Updated}

ListIsConsistentSnapshot ==
    \A i \in 1..Len(response.built) :
        \E r \in 1..Len(request) :
            /\ response.built[i].priority = request[r].priority
            /\ response.built[i].attributes =
                  ProjectAttributes(request[r], response.attributeKeys)

\* The entry of request msg for the drained member object o carries
\* attributes.
AttachesAttributes(msg, o) ==
    \E i \in 1..Len(msg.members) :
        /\ msg.members[i].groupId = gm[Self].objs[o].groupId
        /\ msg.members[i].id = gm[Self].objs[o].id
        /\ msg.members[i].hasAttributes

\* C27: within a tick, a member's attributes are attached to the request of
\* every peer or to none: each request after the first of the tick decides
\* as the first did, and the push times are not written before the last
\* request of the tick is built.
AttachDecisionIsPerTick ==
    [][\A address \in FanoutAddresses :
          SendGossipFanout(address) =>
              /\ tick[Self].peers # FanoutAddresses \ {Self} =>
                    \E msg \in net' :
                        /\ net' = net \cup {msg}
                        /\ msg.to = address
                        /\ \A o \in tick[Self].members :
                              AttachesAttributes(msg, o) <=>
                                  gm[Self].objs[o].withheldAt
                                      # tick[Self].gossipStartTime
              /\ tick[Self].peers # {address} =>
                    \A o \in tick[Self].members :
                        gm'[Self].objs[o].lastGossipAttributesUpdateTime
                            = gm[Self].objs[o].lastGossipAttributesUpdateTime]_vars

\* A tick has ended whose requests to the two peers are on their way, and
\* both carry the attributes of a member.
AttachedForBothPeers ==
    /\ tick[Self].pc = "idle"
    /\ \E b \in net, c \in net :
          /\ b.to = "B" /\ c.to = "C"
          /\ \E i \in 1..Len(b.members), j \in 1..Len(c.members) :
                /\ b.members[i].id = c.members[j].id
                /\ b.members[i].groupId = c.members[j].groupId
                /\ b.members[i].hasAttributes
                /\ c.members[j].hasAttributes

ChangeSetsEmpty == \A s \in ServerAddresses : gm[s].modified = EmptyMap

\* C28: handling a gossip request adds to the receiver's change set only
\* members the request mutated; so, once the heartbeats have stopped and
\* with no expiry, the ticks empty every change set after finitely many
\* steps and the change sets stay empty.
GossipQuiesces ==
    /\ [][\A msg \in net :
             ReceiveGossip(msg) =>
                 \A k \in DOMAIN gm'[msg.to].modified :
                     \/ k \in DOMAIN gm[msg.to].modified
                     \/ View(gm'[msg.to], k) # View(gm[msg.to], k)]_vars
    /\ <>[]ChangeSetsEmpty

\* The gossip has come to rest after an entry went from one server to the
\* other and was adopted there: nothing in flight, no tick running, every
\* change set empty, and both servers hold the member at revision 2.
QuietAfterAdoption ==
    /\ Quiescent
    /\ \E k \in HbKeys :
          \A s \in ServerAddresses : Holds(s, k) /\ Stored(s, k).revision = 2

\* The slots acquired whose release has not been processed: those of the
\* live guards and those of the callbacks still on the job invoker.
Outstanding == slotManager.guards \o slotManager.invoked

\* C29: while the slot manager runs, FreeSlots_ holds indices of
\* 0..SlotCount-1 only; no index is held by two guards or pending releases,
\* and none that is held is free, so an index is handed out again only
\* after its release has been processed; GetUsedSlotCount is the number of
\* slots acquired and not yet released; and the release callback never
\* finds its index free already.
SlotsAreExclusive ==
    /\ slotManager.aborted # "ReleaseSlot"
    /\ Running =>
          /\ slotManager.FreeSlots_ \subseteq 0..(SlotCount - 1)
          /\ \A i, j \in 1..Len(Outstanding) :
                i # j => Outstanding[i].SlotIndex_ # Outstanding[j].SlotIndex_
          /\ \A i \in 1..Len(Outstanding) :
                /\ Outstanding[i].SlotIndex_ \in 0..(SlotCount - 1)
                /\ Outstanding[i].SlotIndex_ \notin slotManager.FreeSlots_
          /\ GetUsedSlotCount(slotManager) = Len(Outstanding)

\* Every slot is taken, and slot 0 was handed out after slot 1: it had been
\* released, and the release processed, in between.
SlotReusedAfterRelease ==
    /\ Running
    /\ slotManager.FreeSlots_ = {}
    /\ Len(slotManager.guards) = SlotCount
    /\ slotManager.guards[1].SlotIndex_ = 1
    /\ slotManager.guards[SlotCount].SlotIndex_ = 0

\* The Idle slots among the outstanding ones.
IsIdle(slot) == slot.SlotType_ = "Idle"

OutstandingIdle == SelectSeq(Outstanding, IsIdle)

\* The sums the doubles acc and RequestedCpu_ of the slots idxs of
\* OutstandingIdle can give, added up in any order.
RECURSIVE DoubleSums(_, _)
DoubleSums(acc, idxs) ==
    IF idxs = {} THEN {acc}
    ELSE UNION {DoubleSums(DoubleAdd(acc, OutstandingIdle[i].RequestedCpu_),
                           idxs \ {i}) : i \in idxs}

\* UsedIdleSlotCount_ is the number of Idle slots acquired and not yet
\* released, IdlePolicyRequestedCpu_ the sum of their requested CPU, and
\* both are 0 when no slot is outstanding.
IdleCountersMatch ==
    Running =>
        /\ slotManager.UsedIdleSlotCount_ = Len(OutstandingIdle)
        /\ slotManager.IdlePolicyRequestedCpu_
              \in DoubleSums(0, 1..Len(OutstandingIdle))
        /\ Outstanding = <<>> =>
              /\ slotManager.UsedIdleSlotCount_ = 0
              /\ slotManager.IdlePolicyRequestedCpu_ = 0

\* A slot is typed Idle exactly when the request allows the idle policy and
\* the CPU asked for fits under the idle limit; a call that throws
\* SlotNotFound changes neither counter.
IdleSlotTyping ==
    [][\A cpuRequest \in CpuRequests, feasible \in BOOLEAN :
          AcquireSlot(cpuRequest, feasible) =>
              /\ ~feasible =>
                    /\ slotManager'.result = "SlotNotFound"
                    /\ slotManager'.UsedIdleSlotCount_
                          = slotManager.UsedIdleSlotCount_
                    /\ slotManager'.IdlePolicyRequestedCpu_
                          = slotManager.IdlePolicyRequestedCpu_
                    /\ slotManager'.guards = slotManager.guards
              /\ slotManager'.result = "slot" =>
                    (IsIdle(slotManager'.guards[Len(slotManager'.guards)])
                        <=> /\ cpuRequest.allow_cpu_idle_policy
                            /\ DoubleAdd(slotManager.IdlePolicyRequestedCpu_,
                                         cpuRequest.cpu) <= IdleCpuLimit)]_vars

\* C30: the idle-slot accounting: a slot is typed Idle only when the request
\* allows it and the idle CPU limit has room; UsedIdleSlotCount_ and
\* IdlePolicyRequestedCpu_ are the number and the CPU sum of the Idle slots
\* acquired and not yet released, hence 0 once every slot is released; and
\* a call that throws SlotNotFound changes neither.
IdleAccountingIsExact ==
    /\ []IdleCountersMatch
    /\ IdleSlotTyping

\* The GenericPersistentError alert of the slot manager.
PersistentAlert == slotManager.Alerts_["GenericPersistentError"]

\* While the GenericPersistentError alert is set, HasFatalAlert is true and
\* IsEnabled is false whatever the rest of the node says, and the calls of
\* the two return just that.
DisabledWhileAlertSet ==
    ~IsOK(PersistentAlert) =>
        /\ HasFatalAlert(slotManager)
        /\ \A ready \in BOOLEAN, disableJobsOnGpuCheckFailure \in BOOLEAN :
              ~IsEnabled(slotManager, ready, disableJobsOnGpuCheckFailure)
        /\ slotManager.call[1] = "HasFatalAlert" => slotManager.result
        /\ slotManager.call[1] = "IsEnabled" => ~slotManager.result

\* A Disable(error) made while the alert is clear sets it to the wrapped
\* error; one made while it is set leaves it as it is.
FirstDisableWins ==
    \A error \in Errors :
        Disables(error) =>
            /\ IsOK(PersistentAlert) =>
                  PersistentAlert' =
                      TError("Scheduler jobs disabled", error.message)
            /\ ~IsOK(PersistentAlert) => PersistentAlert' = PersistentAlert

\* The alert, once set, changes only by ResetAlert(GenericPersistentError).
OnlyResetAlertClears ==
    (~IsOK(PersistentAlert) /\ PersistentAlert' # PersistentAlert) =>
        /\ AlertReset("GenericPersistentError")
        /\ IsOK(PersistentAlert')

\* C31: the first Disable(error) sets the GenericPersistentError alert, a
\* later Disable leaves the alert unchanged, HasFatalAlert is true and
\* IsEnabled false while the alert is set, and only
\* ResetAlert(GenericPersistentError) clears it.
PersistentDisableIsSticky ==
    /\ []DisabledWhileAlertSet
    /\ [][FirstDisableWins]_vars
    /\ [][OnlyResetAlertClears]_vars

\* A second Disable, with the error e2, has just returned and the alert
\* still holds the first error, e1.
SecondDisableLeftFirstError ==
    /\ slotManager.call = <<"Disable", "e2">>
    /\ PersistentAlert = TError("Scheduler jobs disabled", "e1")

\* The TooManyConsecutiveJobAbortions alert of the slot manager.
AbortionsAlert == slotManager.Alerts_["TooManyConsecutiveJobAbortions"]

\* The number of aborted scheduler jobs at the end of a history: the jobs
\* finished one after the other since the last other job and the last run
\* of the delayed reset.
RECURSIVE Streak(_)
Streak(finished) ==
    IF finished = <<>> \/ finished[Len(finished)] # "aborted"
    THEN 0
    ELSE 1 + Streak(SubSeq(finished, 1, Len(finished) - 1))

\* The delayed resets of the consecutive-abort count submitted and not yet
\* run.
PendingResets(sm) ==
    Len(SelectSeq(sm.delayed,
                  LAMBDA callback :
                      callback = "ResetConsecutiveAbortedJobCount"))

\* The step raises the alert: clear before, set after.
AlertRaised == IsOK(AbortionsAlert) /\ ~IsOK(AbortionsAlert')

\* A finished job raises the alert exactly when the alert is clear and the
\* aborted scheduler jobs finished in a row, this one included, are more
\* than MaxConsecutiveJobAborts; a job that is not an aborted scheduler job
\* sets the count to 0; nothing else raises the alert.
RaisedWhenStreakExceeds ==
    /\ \A job \in Jobs :
          JobFinished(job) =>
              /\ AlertRaised <=>
                    /\ IsOK(AbortionsAlert)
                    /\ Streak(slotManager'.finished) > MaxConsecutiveJobAborts
              /\ ~(job.type = "SchedulerJob" /\ job.state = "Aborted") =>
                    slotManager'.ConsecutiveAbortedSchedulerJobCount_ = 0
    /\ AlertRaised => \E job \in Jobs : JobFinished(job)

\* A delayed reset is submitted by the steps that raise the alert, one by
\* each, and by no other step.
ResetScheduledOnRaise ==
    /\ AlertRaised =>
          PendingResets(slotManager') = PendingResets(slotManager) + 1
    /\ ~AlertRaised =>
          PendingResets(slotManager') <= PendingResets(slotManager)

\* The run of the delayed reset clears the alert and the count.
ResetClearsBoth ==
    \A i \in 1..(2 * MaxFinished) :
        (DelayedRuns(i)
         /\ slotManager.delayed[i] = "ResetConsecutiveAbortedJobCount") =>
            /\ IsOK(AbortionsAlert')
            /\ slotManager'.ConsecutiveAbortedSchedulerJobCount_ = 0

\* C32: the TooManyConsecutiveJobAbortions alert is raised exactly when the
\* consecutive finished jobs that are aborted scheduler jobs exceed
\* MaxConsecutiveJobAborts, any other finished job resets the counter to 0,
\* a delayed reset is scheduled only when the alert goes from clear to set,
\* and that reset clears the alert and the counter.
ConsecutiveAbortAlert ==
    /\ [](slotManager.ConsecutiveAbortedSchedulerJobCount_
             = Streak(slotManager.finished))
    /\ [][RaisedWhenStreakExceeds]_vars
    /\ [][ResetScheduledOnRaise]_vars
    /\ [][ResetClearsBoth]_vars

\* The alert was raised by a run of aborted scheduler jobs longer than the
\* maximum, more of them finished while it was set, and the delayed reset
\* has just run: the alert and the count are clear and no reset is pending.
AlertRaisedAndReset ==
    /\ slotManager.call[1] = "ResetConsecutiveAbortedJobCount"
    /\ Len(slotManager.finished) = MaxConsecutiveJobAborts + 3
    /\ \A i \in 1..(MaxConsecutiveJobAborts + 2) :
          slotManager.finished[i] = "aborted"
    /\ IsOK(AbortionsAlert)
    /\ slotManager.ConsecutiveAbortedSchedulerJobCount_ = 0
    /\ PendingResets(slotManager) = 0

====
